---- MODULE Spec2Model ----
(***************************************************************************)
(* Deployment-readiness reconciliation of the vLLM control plane           *)
(* (platform/backend): get_deployment_status, get_enhanced_deployment_     *)
(* status and the active_deployments registry with the handlers that       *)
(* write it.                                                               *)
(*                                                                         *)
(* Python strings on which the code does substring / prefix tests (pod,    *)
(* release and chart names, log text, the rollup text) are sequences of    *)
(* one-character strings, so that `a in b`, startswith and lower() are     *)
(* computed character by character as Python does.  Enumerated texts that  *)
(* are only compared for equality (llm_status, ui_status, phases) are      *)
(* plain strings.                                                          *)
(***************************************************************************)
EXTENDS Naturals, Sequences, FiniteSets, TLC

VARIABLES
    pods,                \* the pods of namespace NS1 as the cluster holds them
    releases,            \* the installed helm releases
    active_deployments,  \* app.state.active_deployments: id -> record
    background,          \* the background tasks added and not yet run
    ret,                 \* what the handler invoked last returned, with its call trace
    manager              \* the ConnectionManager: its connection lists and log tasks

vars == <<pods, releases, active_deployments, background, ret, manager>>

----------------------------------------------------------------------------
(* Bounds of the model.                                                    *)

\* at most this many pods exist in the namespace at one time
MaxPods == 2
\* uuid.uuid4() draws its ids from a pool of this many
MaxRandomIds == 1
\* at most this many background tasks and threads are pending at one time
MaxTasks == 2
\* at most this many websockets are opened over the life of the process
MaxSockets == 2

\* ConnectionManager.__init__: no connection lists and no log tasks
NewManager == [active_connections |-> <<>>, log_tasks |-> <<>>, accepted |-> {}]

----------------------------------------------------------------------------
(* String literals of the source, character by character.                  *)

\* '-'
S_dash == <<"-">>
\* ':'
S_colon == <<":">>
\* 'router'
S_router == <<"r","o","u","t","e","r">>
\* 'vllm'
S_vllm == <<"v","l","l","m">>
\* 'deployment'
S_deployment == <<"d","e","p","l","o","y","m","e","n","t">>
\* 'engine'
S_engine == <<"e","n","g","i","n","e">>
\* 'llm'
S_llm == <<"l","l","m">>
\* 'http://'
S_http == <<"h","t","t","p",":","/","/">>
\* '-router-service'
S_router_service == <<"-","r","o","u","t","e","r","-","s","e","r","v","i","c","e">>
\* '.svc.cluster.local'
S_svc_local == <<".","s","v","c",".","c","l","u","s","t","e","r",".","l","o","c","a","l">>
\* '.'
S_dot == <<".">>
\* '~' and '-.*' of the field selector metadata.name=~{release_name}-.*
S_field_selector_head == <<"~">>
S_field_selector_tail == <<"-",".","*">>
\* 'Error'
T_Error == <<"E","r","r","o","r">>
\* 'failed'
T_failed == <<"f","a","i","l","e","d">>
\* 'model loaded successfully'
T_loaded == <<"m","o","d","e","l"," ","l","o","a","d","e","d"," ","s","u","c","c","e","s","s","f","u","l","l","y">>
\* 'loading model'
T_loading == <<"l","o","a","d","i","n","g"," ","m","o","d","e","l">>
\* 'downloading'
T_downloading == <<"d","o","w","n","l","o","a","d","i","n","g">>

\* Python None, as a value no string of characters equals
None == <<"None">>

----------------------------------------------------------------------------
(* Python string operations.                                               *)

\* sub in s
Contains(s, sub) ==
    \E i \in 1..(Len(s) + 1) :
        /\ i + Len(sub) - 1 <= Len(s)
        /\ \A k \in 1..Len(sub) : s[i + k - 1] = sub[k]

\* s.startswith(p)
StartsWith(s, p) ==
    /\ Len(p) <= Len(s)
    /\ \A k \in 1..Len(p) : s[k] = p[k]

\* str.lower() on one character
LowerChar(c) ==
    CASE c = "A" -> "a" [] c = "B" -> "b" [] c = "C" -> "c" [] c = "D" -> "d"
      [] c = "E" -> "e" [] c = "F" -> "f" [] c = "G" -> "g" [] c = "H" -> "h"
      [] c = "I" -> "i" [] c = "J" -> "j" [] c = "K" -> "k" [] c = "L" -> "l"
      [] c = "M" -> "m" [] c = "N" -> "n" [] c = "O" -> "o" [] c = "P" -> "p"
      [] c = "Q" -> "q" [] c = "R" -> "r" [] c = "S" -> "s" [] c = "T" -> "t"
      [] c = "U" -> "u" [] c = "V" -> "v" [] c = "W" -> "w" [] c = "X" -> "x"
      [] c = "Y" -> "y" [] c = "Z" -> "z" [] OTHER -> c

\* s.lower()
Lower(s) == [k \in 1..Len(s) |-> LowerChar(s[k])]

----------------------------------------------------------------------------
(* The cluster as the commands see it.                                     *)

\* 'ns1', the namespace whose pods the model tracks; other namespaces hold no pod
NS1 == <<"n","s","1">>
\* 'demo' and 'demo2', two releases of that namespace; 'web', an unrelated release
REL_demo == <<"d","e","m","o">>
REL_demo2 == <<"d","e","m","o","2">>
REL_web == <<"w","e","b">>
\* 'demo-cache'
POD_cache == <<"d","e","m","o","-","c","a","c","h","e">>
\* 'demo-deployment-router'
POD_router == <<"d","e","m","o","-","d","e","p","l","o","y","m","e","n","t","-","r","o","u","t","e","r">>
\* 'demo-vllm'
POD_vllm == <<"d","e","m","o","-","v","l","l","m">>
\* 'demo2-vllm'
POD_demo2 == <<"d","e","m","o","2","-","v","l","l","m">>
\* 'x.example.com' and '10.0.0.7', a load balancer's hostname and ip
HOST == <<"x",".","e","x","a","m","p","l","e",".","c","o","m">>
IP == <<"1","0",".","0",".","0",".","7">>

\* the pod names that can exist in NS1, in the order kubectl lists them (by name)
PodNames == <<POD_cache, POD_router, POD_vllm, POD_demo2>>

\* the labels the chart gives a pod: the `model` label, app=router, and
\* app.kubernetes.io/instance=<release>
PodLabels(name) ==
    [model    |-> name \in {POD_vllm, POD_demo2},
     router   |-> name = POD_router,
     instance |-> IF name = POD_demo2 THEN REL_demo2 ELSE REL_demo]

\* no such pod
Absent == [phase |-> "Absent", has_cs |-> FALSE, cs |-> <<>>]

\* status.phase and status.containerStatuses[*].ready of a pod that exists;
\* has_cs is whether the pod's status carries the containerStatuses key
PodConds ==
    { [phase |-> "Pending", has_cs |-> FALSE, cs |-> <<>>],
      [phase |-> "Running", has_cs |-> FALSE, cs |-> <<>>],
      [phase |-> "Running", has_cs |-> TRUE,  cs |-> <<TRUE>>],
      [phase |-> "Running", has_cs |-> TRUE,  cs |-> <<FALSE>>],
      [phase |-> "Running", has_cs |-> TRUE,  cs |-> <<TRUE, FALSE>>] }

\* the cluster states the model ranges over
PodWorlds ==
    { w \in [1..Len(PodNames) -> PodConds \cup {Absent}] :
        Cardinality({i \in 1..Len(PodNames) : w[i] # Absent}) <= MaxPods }

\* the "items" of `kubectl get pods -n <namespace> -o json`
KubectlGetPods(namespace) ==
    IF namespace # NS1 THEN <<>>
    ELSE LET all == [i \in 1..Len(PodNames) |->
                        [name   |-> PodNames[i],
                         labels |-> PodLabels(PodNames[i]),
                         phase  |-> pods[i].phase,
                         has_cs |-> pods[i].has_cs,
                         cs     |-> pods[i].cs]]
         IN  SelectSeq(all, LAMBDA p : p.phase # "Absent")

\* the router Service of a release as the cluster can hold it
ServiceSamples ==
    { [exists |-> FALSE, type |-> "ClusterIP", ingress |-> <<>>],
      [exists |-> TRUE,  type |-> "ClusterIP", ingress |-> <<>>],
      [exists |-> TRUE,  type |-> "LoadBalancer", ingress |-> <<>>],
      [exists |-> TRUE,  type |-> "LoadBalancer",
       ingress |-> << [has_hostname |-> FALSE, hostname |-> None, has_ip |-> TRUE, ip |-> IP] >>],
      [exists |-> TRUE,  type |-> "LoadBalancer",
       ingress |-> << [has_hostname |-> TRUE, hostname |-> HOST, has_ip |-> TRUE, ip |-> IP] >>] }

\* the release names a handler is called with
ReleaseNames == {REL_demo, REL_demo2, REL_web}

PodNameSet == {PodNames[i] : i \in 1..Len(PodNames)}

----------------------------------------------------------------------------
(* The name tests of the code, evaluated once for every pod name.          *)

\* pod_name.startswith(f"{release_name}-")
PrefixedPodNames ==
    [r \in ReleaseNames |-> {n \in PodNameSet : StartsWith(n, r \o S_dash)}]

\* release_name in pod_name
MemberPodNames ==
    [r \in ReleaseNames |-> {n \in PodNameSet : Contains(n, r)}]

\* "router" in pod_name.lower()
RouterPodNames == {n \in PodNameSet : Contains(Lower(n), S_router)}

\* any(marker in pod_name.lower() for marker in ["vllm", "deployment"])
ModelPodNames ==
    {n \in PodNameSet : Contains(Lower(n), S_vllm) \/ Contains(Lower(n), S_deployment)}

\* ("vllm" in pod_name.lower() or "engine" in pod_name.lower())
\* and not "router" in pod_name.lower()
EnginePodNames ==
    {n \in PodNameSet :
        /\ Contains(Lower(n), S_vllm) \/ Contains(Lower(n), S_engine)
        /\ ~Contains(Lower(n), S_router)}

\* --field-selector metadata.name=~{release_name}-.* : kubectl reads `=` as the
\* operator, so the selector keeps the pods named exactly "~{release_name}-.*"
FieldSelectedNames ==
    [r \in ReleaseNames |->
        {n \in PodNameSet : n = S_field_selector_head \o r \o S_field_selector_tail}]

----------------------------------------------------------------------------
(* get_deployment_status: the pod rollup and the service address.          *)
(*                                                                         *)
(* A Python dict is a record with every field the code may set plus        *)
(* `keys`, the set of keys the dict really holds; a field whose key is     *)
(* missing holds a placeholder.  The fields gpu_count, cpu_count, memory,  *)
(* image, created_at and pod_status are carried through untouched by       *)
(* everything modelled here and are left out.  pod_status, a dict keyed by  *)
(* pod name, is the sequence of its items in insertion order.              *)
(*                                                                         *)
(* io gives what each external command of this call answers:               *)
(*   "ok"      exit code 0 and well-formed output                          *)
(*   "fail"    non-zero exit code, empty stdout                            *)
(*   "garbage" exit code 0, stdout that json.loads rejects                 *)

\* a variant of the error dict without the key "status"
ErrorStatus_NoStatus(namespace, release_name) ==
    [keys              |-> {"name", "namespace", "model", "error"},
     name              |-> release_name,
     namespace         |-> namespace,
     status            |-> "Error",
     model_pod_status  |-> "<absent>",
     router_pod_status |-> "<absent>",
     model             |-> "unknown",
     service_url       |-> None,
     public_url        |-> None,
     pod_status        |-> <<>>]

\* the dict both error returns build
ErrorStatus(namespace, release_name) ==
    [keys              |-> {"name", "namespace", "status", "model", "error"},
     name              |-> release_name,
     namespace         |-> namespace,
     status            |-> "Error",
     model_pod_status  |-> "<absent>",
     router_pod_status |-> "<absent>",
     model             |-> "unknown",
     service_url       |-> None,
     public_url        |-> None,
     pod_status        |-> <<>>]

\* all(status == "Running" for status in [pod["status"]["phase"] for pod in pod_list])
AllRunning(pod_list) == \A k \in 1..Len(pod_list) : pod_list[k].phase = "Running"

\* "Running" / "Pending" of a non-empty list of pods, "Unknown" of an empty one
RolePodStatus(pod_list) ==
    IF pod_list # <<>>
    THEN (IF AllRunning(pod_list) THEN "Running" ELSE "Pending")
    ELSE "Unknown"

\* a variant of the combined status that lacks the test for an empty pod list
OverallStatus_NoEmptyTest(model_pod_status, router_pod_status, vllm_pods) ==
    IF model_pod_status = "Running" /\ router_pod_status = "Running" THEN "Running"
    ELSE IF model_pod_status = "Running" THEN "Model Ready (Router Pending)"
    ELSE IF router_pod_status = "Running" THEN "Router Ready (Model Pending)"
    ELSE "Pending"

\* the combined status
OverallStatus(model_pod_status, router_pod_status, vllm_pods) ==
    IF model_pod_status = "Running" /\ router_pod_status = "Running" THEN "Running"
    ELSE IF model_pod_status = "Running" THEN "Model Ready (Router Pending)"
    ELSE IF router_pod_status = "Running" THEN "Router Ready (Model Pending)"
    ELSE IF vllm_pods = <<>> THEN "No Pods Found"
    ELSE "Pending"

\* the detailed status of one pod: its phase, with " (Not Ready)" when its Ready
\* condition is not "True"; a pod has that condition once it reports container
\* statuses, and the condition is "True" when every container is ready
DetailedStatus(pod) ==
    IF pod.has_cs /\ \E k \in 1..Len(pod.cs) : ~pod.cs[k]
    THEN <<pod.phase, "(Not Ready)">>
    ELSE <<pod.phase>>

\* pod_name.startswith(f"{release_name}-")
IsDeploymentPod(pod, release_name) == pod.name \in PrefixedPodNames[release_name]

\* "router" in pod_name.lower()
IsRouterName(pod) == pod.name \in RouterPodNames

\* any(marker in pod_name.lower() for marker in ["vllm", "deployment"])
IsModelName(pod) == pod.name \in ModelPodNames

\* the three pod lists of the broad listing
BroadPods(items, release_name) ==
    LET vllm_pods == SelectSeq(items, LAMBDA p : IsDeploymentPod(p, release_name))
    IN  [vllm_pods   |-> vllm_pods,
         router_pods |-> SelectSeq(vllm_pods, LAMBDA p : IsRouterName(p)),
         model_pods  |-> SelectSeq(vllm_pods, LAMBDA p : ~IsRouterName(p) /\ IsModelName(p))]

\* the three pod lists of the label-selector listing
LabelPods(model_items, namespace, release_name, io) ==
    LET router_pods ==
            IF io.c1r = "ok"
            THEN SelectSeq(KubectlGetPods(namespace), LAMBDA p :
                    p.labels.router /\ p.name \in FieldSelectedNames[release_name])
            ELSE <<>>
    IN  [vllm_pods   |-> model_items \o router_pods,
         router_pods |-> router_pods,
         model_pods  |-> model_items]

\* external_ip / public_url out of the router Service
ServiceAddress(svc) ==
    IF svc.type = "LoadBalancer" /\ svc.ingress # <<>> /\ svc.ingress[1].has_hostname
    THEN svc.ingress[1].hostname
    ELSE IF svc.type = "LoadBalancer" /\ svc.ingress # <<>> /\ svc.ingress[1].has_ip
    THEN svc.ingress[1].ip
    ELSE None

\* the pods the first listing (-l model, with the field selector) returns
ModelItems(namespace, release_name) ==
    SelectSeq(KubectlGetPods(namespace), LAMBDA p :
        p.labels.model /\ p.name \in FieldSelectedNames[release_name])

\* whether the broad listing replaces the label-selector one
BroadListing(namespace, release_name, io) ==
    io.c1 = "fail" \/ ModelItems(namespace, release_name) = <<>>

\* io.c1, io.c1r : the two label-selector listings;  io.c2 : the broad listing;
\* io.helm : `helm get values` ("emptyspec": servingEngineSpec.modelSpec is []);
\* io.svcA : `kubectl get service`, answering io.svc
get_deployment_status(namespace, release_name, io) ==
    LET model_items == ModelItems(namespace, release_name)
        broad == BroadListing(namespace, release_name, io)
        lists == IF broad THEN BroadPods(KubectlGetPods(namespace), release_name)
                 ELSE LabelPods(model_items, namespace, release_name, io)
        model_pod_status  == RolePodStatus(lists.model_pods)
        router_pod_status == RolePodStatus(lists.router_pods)
        external_ip ==
            IF io.svcA = "ok" /\ io.svc.exists THEN ServiceAddress(io.svc) ELSE None
    IN  IF io.c1 = "garbage" THEN ErrorStatus(namespace, release_name)
        ELSE IF broad /\ io.c2 = "fail" THEN ErrorStatus(namespace, release_name)
        ELSE IF broad /\ io.c2 = "garbage" THEN ErrorStatus(namespace, release_name)
        ELSE IF ~broad /\ io.c1r = "garbage" THEN ErrorStatus(namespace, release_name)
        ELSE IF io.helm = "emptyspec" THEN ErrorStatus(namespace, release_name)
        ELSE
            [keys              |-> {"name", "namespace", "status", "model_pod_status",
                                    "router_pod_status", "model", "service_url",
                                    "public_url", "pod_status"},
             name              |-> release_name,
             namespace         |-> namespace,
             status            |-> OverallStatus(model_pod_status, router_pod_status,
                                                 lists.vllm_pods),
             model_pod_status  |-> model_pod_status,
             router_pod_status |-> router_pod_status,
             model             |-> IF io.helm = "ok" THEN "org/model" ELSE "unknown",
             service_url       |-> release_name \o S_router_service \o S_dot
                                       \o namespace \o S_svc_local,
             public_url        |-> IF external_ip # None THEN S_http \o external_ip
                                   ELSE None,
             pod_status        |-> [k \in 1..Len(lists.vllm_pods) |->
                                       [name   |-> lists.vllm_pods[k].name,
                                        status |-> DetailedStatus(lists.vllm_pods[k])]]]

----------------------------------------------------------------------------
(* get_enhanced_deployment_status: the readiness verdict.                  *)

\* the rollup texts, character by character, for `"Error" in status` and
\* `"failed" in status.lower()`
StatusChars(status) ==
    CASE status = "Running" -> <<"R","u","n","n","i","n","g">>
      [] status = "Model Ready (Router Pending)" ->
            <<"M","o","d","e","l"," ","R","e","a","d","y"," ","(","R","o","u","t","e","r",
              " ","P","e","n","d","i","n","g",")">>
      [] status = "Router Ready (Model Pending)" ->
            <<"R","o","u","t","e","r"," ","R","e","a","d","y"," ","(","M","o","d","e","l",
              " ","P","e","n","d","i","n","g",")">>
      [] status = "No Pods Found" -> <<"N","o"," ","P","o","d","s"," ","F","o","u","n","d">>
      [] status = "Pending" -> <<"P","e","n","d","i","n","g">>
      [] status = "Error" -> <<"E","r","r","o","r">>

\* what the router answers on /v1/models when the exec'd curl prints something:
\* text that is no JSON, an object without "data", and {"data": [...]} with
\* 0, 1 or 2 entries
ProbeBodies == { [json |-> FALSE, has_data |-> FALSE, data |-> 0],
                 [json |-> TRUE,  has_data |-> FALSE, data |-> 0],
                 [json |-> TRUE,  has_data |-> TRUE,  data |-> 0],
                 [json |-> TRUE,  has_data |-> TRUE,  data |-> 1],
                 [json |-> TRUE,  has_data |-> TRUE,  data |-> 2] }

\* 'INFO Model loaded successfully\n'
LOG_loaded == <<"I","N","F","O"," ","M","o","d","e","l"," ","l","o","a","d","e","d"," ","s","u","c","c","e","s","s","f","u","l","l","y","\n">>
\* 'INFO Loading model weights\n'
LOG_loading == <<"I","N","F","O"," ","L","o","a","d","i","n","g"," ","m","o","d","e","l"," ","w","e","i","g","h","t","s","\n">>
\* 'Downloading shards\n'
LOG_downloading == <<"D","o","w","n","l","o","a","d","i","n","g"," ","s","h","a","r","d","s","\n">>
\* 'INFO Started server\n'
LOG_other == <<"I","N","F","O"," ","S","t","a","r","t","e","d"," ","s","e","r","v","e","r","\n">>

\* the stdout of `kubectl logs --tail=50` the model ranges over
LogSamples == { <<>>, LOG_other, LOG_loading, LOG_downloading, LOG_loaded,
                LOG_loading \o LOG_loaded }

\* a variant of the loop whose `else: all_ready = False` belongs to the inner
\* `for` (Python's for-else), so that it runs whenever no container is unready
ReadyLoop_ForElse(deployment_pods, k, all_running, all_ready) == FALSE

\* the loop over deployment_pods: all_running and all_ready after pod k and on
RECURSIVE ReadyLoop(_, _, _, _)
ReadyLoop(deployment_pods, k, all_running, all_ready) ==
    IF k > Len(deployment_pods) THEN all_running /\ all_ready
    ELSE LET pod == deployment_pods[k]
         IN  IF pod.phase # "Running" THEN FALSE   \* all_running = False; break
             ELSE IF pod.has_cs
             THEN ReadyLoop(deployment_pods, k + 1, all_running,
                            IF \E c \in 1..Len(pod.cs) : ~pod.cs[c] THEN FALSE
                            ELSE all_ready)
             ELSE ReadyLoop(deployment_pods, k + 1, all_running, FALSE)

\* the readiness gate; io.c3 : its pod listing
ReadinessGate(namespace, release_name, io) ==
    LET deployment_pods ==
            IF io.c3 = "ok"
            THEN SelectSeq(KubectlGetPods(namespace),
                           LAMBDA p : p.name \in MemberPodNames[release_name])
            ELSE <<>>
    IN  [listed          |-> io.c3 = "ok",
         deployment_pods |-> [k \in 1..Len(deployment_pods) |-> deployment_pods[k].name],
         all_pods_ready  |-> /\ io.c3 = "ok"
                             /\ deployment_pods # <<>>
                             /\ ReadyLoop(deployment_pods, 1, TRUE, TRUE)]

\* the rollup texts get_deployment_status returns
RollupTexts == {"Running", "Model Ready (Router Pending)", "Router Ready (Model Pending)",
                "No Pods Found", "Pending", "Error"}

\* "Error" in status or "failed" in status.lower(), for every rollup text
FailedTexts ==
    {t \in RollupTexts : \/ Contains(StatusChars(t), T_Error)
                         \/ Contains(Lower(StatusChars(t)), T_failed)}

\* a variant of the verdict that reports the failure in llm_status only
NotRunningVerdict_UiUntouched(status) ==
    IF status \in FailedTexts
    THEN [llm_status |-> "Failed", ui_status |-> "pending"]
    ELSE [llm_status |-> "Starting", ui_status |-> "pending"]

\* a variant of the verdict without the test for an error text
NotRunningVerdict_NoErrorTest(status) ==
    [llm_status |-> "Starting", ui_status |-> "pending"]

\* llm_status / ui_status of a deployment whose rollup is not "Running"
NotRunningVerdict(status) ==
    IF status \in FailedTexts
    THEN [llm_status |-> "Failed", ui_status |-> "failed"]
    ELSE [llm_status |-> "Starting", ui_status |-> "pending"]

\* a variant of the probe verdict with `len(models_data["data"]) >= 0`
ProbeVerdict_EmptyListReady(body) ==
    IF ~body.json
    THEN [llm_ready |-> FALSE, llm_status |-> "API Error", ui_status |-> "pending"]
    ELSE IF body.has_data
    THEN [llm_ready |-> TRUE, llm_status |-> "Ready", ui_status |-> "active"]
    ELSE [llm_ready |-> FALSE, llm_status |-> "Loading Model", ui_status |-> "pending"]

\* the verdict of a probe that exited 0 with output
ProbeVerdict(body) ==
    IF ~body.json
    THEN [llm_ready |-> FALSE, llm_status |-> "API Error", ui_status |-> "pending"]
    ELSE IF body.has_data /\ body.data > 0
    THEN [llm_ready |-> TRUE, llm_status |-> "Ready", ui_status |-> "active"]
    ELSE [llm_ready |-> FALSE, llm_status |-> "Loading Model", ui_status |-> "pending"]

\* a variant of the log verdict that tests the loading texts first
LogClassify_LoadingFirst(stdout) ==
    LET log_content == Lower(stdout)
    IN  IF Contains(log_content, T_loading) \/ Contains(log_content, T_downloading)
        THEN [llm_status |-> "Downloading/Loading Model", ui_status |-> "pending"]
        ELSE IF Contains(log_content, T_loaded)
        THEN [llm_status |-> "Model Loaded, Service Starting", ui_status |-> "pending"]
        ELSE [llm_status |-> "Starting", ui_status |-> "pending"]

\* the verdict read from the log text
LogClassify(stdout) ==
    LET log_content == Lower(stdout)
    IN  IF Contains(log_content, T_loaded)
        THEN [llm_status |-> "Model Loaded, Service Starting", ui_status |-> "pending"]
        ELSE IF Contains(log_content, T_loading) \/ Contains(log_content, T_downloading)
        THEN [llm_status |-> "Downloading/Loading Model", ui_status |-> "pending"]
        ELSE [llm_status |-> "Starting", ui_status |-> "pending"]

\* LogClassify, evaluated once for every log text
LogVerdicts == [l \in LogSamples |-> LogClassify(l)]

LogVerdict(stdout) == LogVerdicts[stdout]

\* the target of the probe: the first Running pod of the release with "router"
\* in its name, else the router Deployment; io.c5 : the listing by instance label
ProbeTarget(namespace, release_name, io) ==
    LET found ==
            IF io.c5 = "ok"
            THEN SelectSeq(KubectlGetPods(namespace), LAMBDA p :
                    /\ p.labels.instance = release_name
                    /\ p.name \in RouterPodNames
                    /\ p.phase = "Running")
            ELSE <<>>
    IN  IF found # <<>> THEN found[1].name
        ELSE <<"deploy/">> \o release_name \o S_dash \o S_deployment \o S_dash \o S_router

\* the target of the log fetch: the first pod of the release named like a model
\* pod, else the instance label selector; io.c7 : the listing
LogTarget(namespace, release_name, io) ==
    LET found ==
            IF io.c7 = "ok"
            THEN SelectSeq(KubectlGetPods(namespace), LAMBDA p :
                    /\ p.name \in MemberPodNames[release_name]
                    /\ p.name \in EnginePodNames)
            ELSE <<>>
    IN  IF found # <<>> THEN found[1].name
        ELSE <<"-l app.kubernetes.io/instance=">> \o release_name


\* the subscriptions outside every try block: deployment_status["status"] once
\* the fast path is not taken, deployment_status["service_url"] before the
\* probe; a missing key raises KeyError out of the function
KeyErrors(ds, path) ==
    \/ path # "fast" /\ "status" \notin ds.keys
    \/ path \in {"except", "probe", "logs"} /\ "service_url" \notin ds.keys

\* the body of get_enhanced_deployment_status after its call of
\* get_deployment_status: ds is the dict that call returned, gate what the
\* readiness gate listed
EnhancedStatus(namespace, release_name, io, ds, gate) ==
    LET has_ip == io.svcB = "ok" /\ io.svc.exists
        deployment_status ==
            [keys |-> ds.keys \cup {"llm_ready", "llm_status", "ui_status"}
                              \cup (IF has_ip THEN {"external_ip"} ELSE {}),
             llm_ready   |-> FALSE,
             llm_status  |-> "Initializing",
             ui_status   |-> "pending",
             external_ip |-> IF has_ip THEN ServiceAddress(io.svc) ELSE None,
             available_models |-> 0] @@ ds
        Trace(path, probe_calls, log_calls) ==
            [path |-> path, probe_calls |-> probe_calls, log_calls |-> log_calls,
             raised |-> KeyErrors(ds, path),
             gate_listed |-> gate.listed, deployment_pods |-> gate.deployment_pods,
             probe_target |-> IF probe_calls > 0
                              THEN ProbeTarget(namespace, release_name, io) ELSE None,
             log_target   |-> IF log_calls > 0
                              THEN LogTarget(namespace, release_name, io) ELSE None]
    IN  IF gate.all_pods_ready
        THEN [out   |-> [llm_ready |-> TRUE, llm_status |-> "Ready",
                         ui_status |-> "active"] @@ deployment_status,
              trace |-> Trace("fast", 0, 0)]
        ELSE IF ds.status # "Running"
        THEN [out   |-> NotRunningVerdict(ds.status) @@ deployment_status,
              trace |-> Trace("early", 0, 0)]
        ELSE IF io.probe = "timeout"
        THEN [out   |-> [llm_status |-> "Status Check Error: timed out",
                         ui_status  |-> "pending"] @@ deployment_status,
              trace |-> Trace("except", 1, 0)]
        ELSE IF io.probe = "ok"
        THEN [out   |-> (IF ProbeVerdict(io.body).llm_ready
                         THEN [keys |-> deployment_status.keys \cup {"available_models"},
                               available_models |-> io.body.data]
                         ELSE [keys |-> deployment_status.keys])
                        @@ ProbeVerdict(io.body) @@ deployment_status,
              trace |-> Trace("probe", 1, 0)]
        ELSE IF io.logs = "ok"
        THEN [out   |-> LogVerdict(io.log) @@ deployment_status,
              trace |-> Trace("logs", 1, 1)]
        ELSE [out   |-> deployment_status,
              trace |-> Trace("logs", 1, 1)]

\* io.svcB : the second `kubectl get service`;  io.probe : the exec'd curl
\* ("ok": exit 0 with output io.body, "empty": exit 0 without output, "fail":
\* non-zero exit, "timeout": no answer within 5 s);  io.logs : `kubectl logs`
\* ("ok" with stdout io.log, or "fail").
\* The result is the returned dict and, as trace, the path taken, how often the
\* probe and the log fetch were invoked, the pods the readiness gate saw, and
\* whether a KeyError left the function instead of the dict.
get_enhanced_deployment_status(namespace, release_name, io) ==
    EnhancedStatus(namespace, release_name, io,
                   get_deployment_status(namespace, release_name, io),
                   ReadinessGate(namespace, release_name, io))

----------------------------------------------------------------------------
(* The answers one call can meet.                                          *)

CommandAnswers == {"ok", "fail", "garbage"}
HelmAnswers == {"ok", "fail", "garbage", "emptyspec"}
ProbeAnswers == {"ok", "empty", "fail", "timeout"}
NoService == [exists |-> FALSE, type |-> "ClusterIP", ingress |-> <<>>]
NoBody == [json |-> FALSE, has_data |-> FALSE, data |-> 0]

\* the inventory commands of a call: a call meets one misbehaving inventory
\* command at most (the probe and the log fetch fail independently of them)
InventoryCommands == {"c1", "c2", "helm", "svcA", "c3", "svcB", "c5", "c7"}

SingleFault(io) ==
    \A f, g \in InventoryCommands \cap DOMAIN io :
        io[f] # "ok" /\ io[g] # "ok" => f = g

\* the answers to the commands of get_deployment_status and of the readiness
\* gate; a command the call never runs answers "ok", a Service never read is
\* NoService
BaseAnswers ==
    { b \in [c1 : CommandAnswers, c2 : CommandAnswers, helm : HelmAnswers,
             svcA : CommandAnswers, c3 : CommandAnswers, svcB : CommandAnswers,
             svc : ServiceSamples] :
        /\ b.c2 # "ok" => b.c1 # "garbage"
        /\ b.helm # "ok" => b.c1 # "garbage" /\ b.c2 = "ok"
        /\ b.svcA # "ok" => b.c1 # "garbage" /\ b.c2 = "ok" /\ b.helm # "emptyspec"
        /\ b.svc # NoService =>
              \/ b.svcB = "ok"
              \/ b.svcA = "ok" /\ b.c1 # "garbage" /\ b.c2 = "ok" /\ b.helm # "emptyspec" }

\* the same, for a call that meets one misbehaving inventory command at most
BaseInputs == { b \in BaseAnswers : SingleFault(b) }

\* the answers to the commands of the probe and of the log fallback
TailInputs ==
    { t \in [c5 : CommandAnswers, probe : ProbeAnswers, body : ProbeBodies,
             c7 : CommandAnswers, logs : {"ok", "fail", "unused"}, log : LogSamples] :
        /\ t.body # NoBody => t.probe = "ok"
        /\ t.logs = "unused" <=> t.probe \in {"ok", "timeout"}
        /\ t.c7 # "ok" => t.logs # "unused"
        /\ t.log # <<>> => t.logs = "ok" }

\* a call that reaches neither the probe nor the log fallback
NoTail == [c5 |-> "ok", probe |-> "unused", body |-> NoBody,
           c7 |-> "ok", logs |-> "unused", log |-> <<>>]

\* whether a call with base answers b goes on to the probe
ReachesProbe(namespace, release_name, b) ==
    /\ ~ReadinessGate(namespace, release_name, b).all_pods_ready
    /\ get_deployment_status(namespace, release_name, b @@ [c1r |-> "ok"]).status = "Running"

\* every combination of answers a call for (namespace, release_name) can meet in
\* the present cluster state
CallInputs(namespace, release_name) ==
    UNION { { b @@ t @@ [c1r |-> r] :
                t \in IF ReachesProbe(namespace, release_name, b)
                      THEN { t \in TailInputs : SingleFault(b @@ t) }
                      ELSE {NoTail},
                r \in IF BroadListing(namespace, release_name, b) \/ b.c1 = "garbage"
                      THEN {"ok"} ELSE CommandAnswers }
            : b \in BaseInputs }

----------------------------------------------------------------------------
(* The status specification: the cluster changes, and the reconciler is    *)
(* asked for the status of a release.                                      *)

NoCall == [op |-> "none"]

\* a pod appears, disappears or changes its phase or its containers' readiness
PodChange ==
    /\ \E i \in 1..Len(PodNames), c \in PodConds \cup {Absent} :
          /\ c # pods[i]
          /\ pods' = [pods EXCEPT ![i] = c]
          /\ pods' \in PodWorlds
    /\ ret = NoCall
    /\ ret' = NoCall
    /\ UNCHANGED <<releases, active_deployments, background, manager>>

\* the caller has taken the reply of the last call
Reply ==
    /\ ret # NoCall
    /\ ret' = NoCall
    /\ UNCHANGED <<pods, releases, active_deployments, background, manager>>

\* one call of get_enhanced_deployment_status
StatusCall ==
    /\ ret = NoCall
    /\ \E release_name \in {REL_demo, REL_demo2} :
       \E io \in CallInputs(NS1, release_name) :
          ret' = [op |-> "status", namespace |-> NS1, release_name |-> release_name,
                  io |-> io] @@ get_enhanced_deployment_status(NS1, release_name, io)
    /\ UNCHANGED <<pods, releases, active_deployments, background, manager>>

\* the commands subprocess.run is given a timeout for: the exec'd curl (timeout=5)
TimedCommands == {"probe"}

\* the commands a call runs when they answer as io says: the listings of
\* get_deployment_status, `helm get values` and the first service query unless
\* the function has returned before them, the gate's listing and the second
\* service query always, the probe and the log fetch as the trace says
CommandsRun(namespace, release_name, io) ==
    LET broad  == BroadListing(namespace, release_name, io)
        listed == /\ io.c1 # "garbage"
                  /\ IF broad THEN io.c2 = "ok" ELSE io.c1r # "garbage"
        trace  == get_enhanced_deployment_status(namespace, release_name, io).trace
    IN  {"c1", "c3", "svcB"}
        \cup (IF io.c1 = "garbage" THEN {} ELSE IF broad THEN {"c2"} ELSE {"c1r"})
        \cup (IF listed THEN {"helm"} ELSE {})
        \cup (IF listed /\ io.helm # "emptyspec" THEN {"svcA"} ELSE {})
        \cup (IF trace.probe_calls > 0 THEN {"c5", "probe"} ELSE {})
        \cup (IF trace.log_calls > 0 THEN {"c7", "logs"} ELSE {})

\* the answers of a call whose commands answer normally, the probe and the log
\* fetch answering or failing without output
QuietInputs(namespace, release_name) ==
    LET b == [c1 |-> "ok", c2 |-> "ok", helm |-> "ok", svcA |-> "ok", c3 |-> "ok",
              svcB |-> "ok", svc |-> NoService, c1r |-> "ok"]
    IN  { b @@ t : t \in IF ReachesProbe(namespace, release_name, b)
                         THEN {t \in TailInputs : /\ t.c5 = "ok" /\ t.c7 = "ok"
                                                  /\ t.body = NoBody /\ t.log = <<>>}
                         ELSE {NoTail} }

\* one call of get_enhanced_deployment_status in which one command never
\* answers while the others answer normally.  subprocess.run returns when the
\* process ends or its timeout expires: a silent command with a timeout is the
\* answer "timeout" of StatusCall; on a silent command without one the call
\* waits, and no later step of it is ever taken.
StatusCallUnanswered ==
    /\ ret = NoCall
    /\ \E release_name \in {REL_demo, REL_demo2} :
       \E io \in QuietInputs(NS1, release_name) :
       \E command \in CommandsRun(NS1, release_name, io) \ TimedCommands :
          ret' = [op |-> "waiting", namespace |-> NS1, release_name |-> release_name,
                  command |-> command]
    /\ UNCHANGED <<pods, releases, active_deployments, background, manager>>

InitStatus ==
    /\ pods = [i \in 1..Len(PodNames) |-> Absent]
    /\ releases = {}
    /\ active_deployments = <<>>
    /\ background = {}
    /\ ret = NoCall
    /\ manager = NewManager

NextStatus == PodChange \/ StatusCall \/ StatusCallUnanswered \/ Reply

SpecStatus == InitStatus /\ [][NextStatus]_vars

----------------------------------------------------------------------------
(* The fault specification: one release in three cluster states, and calls  *)
(* in which any number of commands misbehave together.                      *)

\* no pod; a Running router pod and a Running model pod that reports no
\* container statuses; a ready router pod and a Pending model pod
FaultWorlds ==
    LET ready   == [phase |-> "Running", has_cs |-> TRUE, cs |-> <<TRUE>>]
        running == [phase |-> "Running", has_cs |-> FALSE, cs |-> <<>>]
        pending == [phase |-> "Pending", has_cs |-> FALSE, cs |-> <<>>]
        World(router, vllm) ==
            [i \in 1..Len(PodNames) |->
                IF PodNames[i] = POD_router THEN router
                ELSE IF PodNames[i] = POD_vllm THEN vllm
                ELSE Absent]
    IN  {World(Absent, Absent), World(running, running), World(ready, pending)}

\* the router Service of the fault specification: none, or a LoadBalancer
\* whose ingress entry has a hostname and an ip
FaultServices ==
    {NoService,
     [exists |-> TRUE, type |-> "LoadBalancer",
      ingress |-> << [has_hostname |-> TRUE, hostname |-> HOST, has_ip |-> TRUE, ip |-> IP] >>]}

\* the answers of the probe and of the log fallback in the fault specification:
\* a probe body that is no JSON or lists one model, logs that are empty or
\* tell of loading
FaultTails ==
    { t \in TailInputs :
        /\ t.body \in {NoBody, [json |-> TRUE, has_data |-> TRUE, data |-> 1]}
        /\ t.log \in {<<>>, LOG_loading} }

FaultBases == { b \in BaseAnswers : b.svc \in FaultServices }

\* every combination of answers a call can meet, with any number of faults
FaultInputs(namespace, release_name) ==
    UNION { { b @@ t @@ [c1r |-> "ok"] :
                t \in IF ReachesProbe(namespace, release_name, b)
                      THEN FaultTails ELSE {NoTail} }
            : b \in FaultBases }

\* one call of get_enhanced_deployment_status under any faults
FaultCall ==
    /\ ret = NoCall
    /\ \E io \in FaultInputs(NS1, REL_demo) :
          ret' = [op |-> "status", namespace |-> NS1, release_name |-> REL_demo,
                  io |-> io] @@ get_enhanced_deployment_status(NS1, REL_demo, io)
    /\ UNCHANGED <<pods, releases, active_deployments, background, manager>>

InitFaults ==
    /\ pods \in FaultWorlds
    /\ releases = {}
    /\ active_deployments = <<>>
    /\ background = {}
    /\ ret = NoCall
    /\ manager = NewManager

NextFaults == FaultCall \/ Reply

SpecFaults == InitFaults /\ [][NextFaults]_vars

----------------------------------------------------------------------------
(* The registry active_deployments and the handlers that register records. *)
(*                                                                         *)
(* A record of the registry keeps `keys`, the keys the dict holds, and the  *)
(* fields release_name, namespace, status, model (the value under           *)
(* "model_path" or "model"), llm_ready and llm_status; a field whose key is *)
(* missing holds NoField.  The other keys (created_at, gpu_count, ...) are  *)
(* named in `keys` only.                                                    *)

NoField == "<absent>"

\* 'default', a namespace without releases
NS_default == <<"d","e","f","a","u","l","t">>
\* 'vllm-stack-0.1.0' and 'nginx-15.1.0', charts as `helm list` prints them
CHART_vllm == <<"v","l","l","m","-","s","t","a","c","k","-","0",".","1",".","0">>
CHART_nginx == <<"n","g","i","n","x","-","1","5",".","1",".","0">>

\* the releases that can be installed, in the order `helm list` prints them
HelmReleases ==
    << [name |-> REL_demo, namespace |-> NS1, chart |-> CHART_vllm],
       [name |-> REL_web,  namespace |-> NS1, chart |-> CHART_nginx] >>

HelmReleaseSet == {HelmReleases[k] : k \in 1..Len(HelmReleases)}

\* the output of `kubectl get namespaces`, split
KubectlGetNamespaces == <<NS_default, NS1>>

\* the parsed output of `helm list -n <namespace>`, or of
\* `helm list --all-namespaces` when namespace is None
HelmList(namespace) ==
    SelectSeq(HelmReleases, LAMBDA r :
        r \in releases /\ (namespace = None \/ r.namespace = namespace))

\* release_name and ("vllm" in release.get("chart", "").lower()
\*                   or "llm" in release_name.lower()), for every release
TrackedReleases ==
    {r \in HelmReleaseSet :
        /\ r.name # <<>>
        /\ Contains(Lower(r.chart), S_vllm) \/ Contains(Lower(r.name), S_llm)}

\* f"{namespace}:{release_name}"
UniqueKey(namespace, release_name) == namespace \o S_colon \o release_name

\* str(uuid.uuid5(uuid.NAMESPACE_DNS, unique_key)): the id is a function of the
\* key, and two keys have two ids
uuid5(unique_key) == <<"uuid5", unique_key>>

\* str(uuid.uuid4()): an id drawn at random, equal to no id drawn before
uuid4 == {<<"uuid4", n>> : n \in 1..MaxRandomIds}

\* the names bound in module app/services/deployment_init.py
deployment_init_globals ==
    {"Dict", "Any", "logging", "asyncio", "subprocess", "json", "active_deployments",
     "logger", "initialize_deployments", "get_deployment_status",
     "get_enhanced_deployment_status"}

\* the names bound in module app/services/deployment_service.py
deployment_service_globals ==
    {"DeploymentListItem", "DeploymentStatus", "DeploymentResponse", "HTTPException",
     "BackgroundTasks", "Query", "List", "Optional", "logging", "uuid", "datetime",
     "asyncio", "subprocess", "json", "Namespace", "os",
     "get_enhanced_deployment_status", "active_deployments", "logger",
     "list_deployments_endpoint", "get_deployment", "create_deployment",
     "delete_deployment_by_id", "delete_deployment_endpoint", "get_deployment_pods",
     "get_deployment_logs", "refresh_deployment_status", "get_deployment_by_name",
     "port_forward_to_deployment", "proxy_chat_to_llm"}

\* a variant of the assignment that leaves the new record alone in the registry
Put_Alone(registry, deployment_id, record) == (deployment_id :> record)

\* active_deployments[deployment_id] = record
Put(registry, deployment_id, record) == (deployment_id :> record) @@ registry

\* active_deployments.pop(deployment_id, None)
Pop(registry, deployment_id) ==
    [id \in DOMAIN registry \ {deployment_id} |-> registry[id]]

\* the task _delete keeps `deployment`, the dict the registry held under the id
\* when the deletion was asked for.  An assignment active_deployments[id] = {...}
\* puts another dict under the id: the tasks of these ids then hold a dict that
\* is no longer the registry's (stale), and what they write the registry does
\* not show.
Detach(tasks, ids) ==
    { IF t.task = "_delete" /\ t.deployment_id \in ids
      THEN [t EXCEPT !.stale = TRUE] ELSE t : t \in tasks }

\* the ids a handler can be called with
DeploymentIds ==
    {uuid5(UniqueKey(NS1, REL_demo)), uuid5(UniqueKey(NS1, REL_web))} \cup uuid4

\* the ids under which the registry holds a record of (namespace, release_name)
IdsOf(registry, namespace, release_name) ==
    {id \in DOMAIN registry : /\ registry[id].namespace = namespace
                              /\ registry[id].release_name = release_name}

\* the probe and the log fetch as the registry handlers meet them: the probe
\* lists one model, or it times out, or it fails and the logs tell of loading
RegistryTails ==
    { t \in TailInputs :
        /\ t.c5 = "ok" /\ t.c7 = "ok"
        /\ \/ t.probe = "ok" /\ t.body = [json |-> TRUE, has_data |-> TRUE, data |-> 1]
           \/ t.probe = "timeout"
           \/ t.probe = "fail" /\ t.logs = "ok" /\ t.log = LOG_loading }

\* the answers to a status call the registry handlers make, the router Service
\* being svc: every inventory command answers normally, the probe and the log
\* fetch answer anything
ServedInputs(namespace, release_name, svc) ==
    LET b == [c1 |-> "ok", c2 |-> "ok", helm |-> "ok", svcA |-> "ok", c3 |-> "ok",
              svcB |-> "ok", svc |-> svc, c1r |-> "ok"]
    IN  { b @@ t : t \in IF ReachesProbe(namespace, release_name, b)
                         THEN RegistryTails ELSE {NoTail} }

\* the same for a release without router Service
RegistryInputs(namespace, release_name) ==
    ServedInputs(namespace, release_name, NoService)

\* the dicts get_enhanced_deployment_status can return for a release
StatusOf(namespace, release_name) ==
    { get_enhanced_deployment_status(namespace, release_name, io).out :
        io \in RegistryInputs(namespace, release_name) }

\* one returned dict for every release a handler may ask about
StatusChoices ==
    { [n \in {REL_demo, REL_web} |-> IF n = REL_demo THEN a ELSE b] :
        a \in StatusOf(NS1, REL_demo), b \in StatusOf(NS1, REL_web) }

\* the record list_deployments_endpoint stores for a release it discovers
ListRecord(release, status) ==
    [keys |-> {"release_name", "namespace", "status", "model_path", "created_at",
               "llm_ready", "llm_status"},
     release_name |-> release.name,
     namespace    |-> release.namespace,
     status       |-> status.status,
     model        |-> status.model,
     llm_ready    |-> status.llm_ready,
     llm_status   |-> status.llm_status]

\* the loop over helm_releases from release k on: `listed` holds the (name,
\* namespace) pairs of `deployments`, `ids` the deployment_id of its items
RECURSIVE ListLoop(_, _, _, _, _, _)
ListLoop(registry, listed, ids, helm_releases, k, st) ==
    IF k > Len(helm_releases) THEN [registry |-> registry, ids |-> ids]
    ELSE LET release == helm_releases[k]
             deployment_id == uuid5(UniqueKey(release.namespace, release.name))
         IN  IF <<release.name, release.namespace>> \in listed
             THEN ListLoop(registry, listed, ids, helm_releases, k + 1, st)
             ELSE ListLoop(Put(registry, deployment_id,
                               ListRecord(release, st[release.name])),
                           listed \cup {<<release.name, release.namespace>>},
                           ids \cup {deployment_id}, helm_releases, k + 1, st)

\* namespace: the filter, or None; helm: what `helm list` answers
list_deployments_endpoint ==
    /\ ret = NoCall
    /\ \E namespace \in {None, NS1}, helm \in CommandAnswers, st \in StatusChoices :
          LET shown == {id \in DOMAIN active_deployments :
                           namespace = None
                           \/ active_deployments[id].namespace = namespace}
              listed == {<<active_deployments[id].release_name,
                           active_deployments[id].namespace>> : id \in shown}
              after == IF helm = "ok"
                       THEN ListLoop(active_deployments, listed, shown,
                                     HelmList(namespace), 1, st)
                       ELSE [registry |-> active_deployments, ids |-> shown]
          IN  /\ active_deployments' = after.registry
              /\ ret' = [op |-> "list", namespace |-> namespace,
                         deployment_ids |-> after.ids]
    /\ UNCHANGED <<pods, releases, background, manager>>

\* the requests create_deployment is called with
Requests ==
    { [namespace |-> NS1, release_name |-> r, model_path |-> "org/model"] :
        r \in {REL_demo, REL_web} }

\* the handler registers the record and adds the task _deploy
create_deployment ==
    /\ ret = NoCall
    /\ \E request \in Requests :
          LET unique_key == UniqueKey(request.namespace, request.release_name)
              deployment_id == uuid5(unique_key)
          IN  /\ active_deployments' =
                    Put(active_deployments, deployment_id,
                        [keys |-> {"id", "release_name", "namespace", "model_path",
                                   "created_at", "status", "gpu_count", "cpu_count",
                                   "memory", "image"},
                         release_name |-> request.release_name,
                         namespace    |-> request.namespace,
                         status       |-> "creating",
                         model        |-> request.model_path,
                         llm_ready    |-> NoField,
                         llm_status   |-> NoField])
              /\ background' = Detach(background, {deployment_id}) \cup
                    {[task |-> "_deploy", deployment_id |-> deployment_id]}
              /\ Cardinality(background') <= MaxTasks
              /\ ret' = [op |-> "create", success |-> TRUE,
                         deployment_id |-> deployment_id]
    /\ UNCHANGED <<pods, releases, manager>>

\* the background task of create_deployment.  deploy_vllm is not bound in the
\* module, so the call raises NameError and the except clause marks the record
\* failed; were it bound, the task would install the release and store
\* "deployed" or "failed".  Without the record the assignment raises KeyError
\* and the task ends.
_deploy ==
    /\ ret = NoCall
    /\ \E t \in background, success \in BOOLEAN :
          LET id == t.deployment_id
              held == id \in DOMAIN active_deployments
              bound == "deploy_vllm" \in deployment_service_globals
          IN  /\ t.task = "_deploy"
              /\ ~bound => success = FALSE
              /\ background' = background \ {t}
              /\ active_deployments' =
                    IF ~held THEN active_deployments
                    ELSE IF bound
                    THEN [active_deployments EXCEPT
                             ![id].status = IF success THEN "deployed" ELSE "failed"]
                    ELSE [active_deployments EXCEPT
                             ![id].status = "failed",
                             ![id].keys = @ \cup {"error"}]
              /\ releases' =
                    IF bound /\ success /\ held
                    THEN releases \cup
                            {r \in HelmReleaseSet :
                                /\ r.name = active_deployments[id].release_name
                                /\ r.namespace = active_deployments[id].namespace}
                    ELSE releases
    /\ UNCHANGED <<pods, ret, manager>>

\* external_ip as get_deployment looks it up: the jsonpath query for
\* ingress[0].ip, then the one for ingress[0].hostname, then the custom-columns
\* query for the ip; a query without output leaves it to the next one
DirectAddress(svc) ==
    IF svc.exists /\ svc.ingress # <<>> /\ svc.ingress[1].has_ip
    THEN svc.ingress[1].ip
    ELSE IF svc.exists /\ svc.ingress # <<>> /\ svc.ingress[1].has_hostname
    THEN svc.ingress[1].hostname
    ELSE None

\* the response of get_deployment for a record the registry holds; svc is the
\* router Service its three address queries read
get_deployment(registry, deployment_id, enhanced_status, svc) ==
    LET deployment == registry[deployment_id]
        external_ip == DirectAddress(svc)
    IN  [deployment_id |-> deployment_id,
         name          |-> deployment.release_name,
         namespace     |-> deployment.namespace,
         status        |-> enhanced_status.status,
         model         |-> IF "model_path" \in deployment.keys THEN deployment.model
                           ELSE "Unknown",
         ready         |-> FALSE,        \* enhanced_status holds no key "ready"
         health_status |-> "unknown",    \* ... and no key "health_status"
         external_ip   |-> external_ip,
         public_url    |-> IF /\ "public_url" \in enhanced_status.keys
                              /\ enhanced_status.public_url # None
                           THEN enhanced_status.public_url
                           ELSE IF external_ip # None THEN S_http \o external_ip
                           ELSE None]

\* a record of (namespace, name) is returned if the registry holds one (the
\* first in the dict's order; the model takes any); otherwise the status dict
\* is stored under a random id
get_deployment_by_name ==
    /\ ret = NoCall
    /\ \E namespace \in {NS1}, name \in {REL_demo, REL_web}, st \in StatusChoices :
          LET held == IdsOf(active_deployments, namespace, name)
              status == st[name]
          IN  IF held # {}
              THEN /\ \E deployment_id \in held :
                         ret' = [op |-> "by_name", registered |-> FALSE,
                                 response |-> get_deployment(active_deployments,
                                                             deployment_id, status,
                                                             NoService)]
                   /\ UNCHANGED active_deployments
              ELSE \E deployment_id \in uuid4 \ DOMAIN active_deployments :
                      LET registry ==
                              Put(active_deployments, deployment_id,
                                  [keys |-> {"release_name", "namespace", "status",
                                             "model_path", "created_at", "llm_ready",
                                             "llm_status", "gpu_count", "cpu_count",
                                             "memory", "image"},
                                   release_name |-> name,
                                   namespace    |-> namespace,
                                   status       |-> status.status,
                                   model        |-> status.model,
                                   llm_ready    |-> status.llm_ready,
                                   llm_status   |-> status.llm_status])
                      IN  /\ active_deployments' = registry
                          /\ ret' = [op |-> "by_name", registered |-> TRUE,
                                     response |-> get_deployment(registry, deployment_id,
                                                                 status, NoService)]
    /\ UNCHANGED <<pods, releases, background, manager>>

\* the record discover_deployments_for_cluster stores for a release
ClusterRecord(release) ==
    [keys |-> {"namespace", "release_name", "project_id", "zone", "cluster_name",
               "status", "chart", "updated"},
     release_name |-> release.name,
     namespace    |-> release.namespace,
     status       |-> "deployed",
     model        |-> NoField,
     llm_ready    |-> NoField,
     llm_status   |-> NoField]

\* the loop over the releases of one namespace, from release k on
RECURSIVE ClusterReleases(_, _, _, _)
ClusterReleases(registry, found, helm_releases, k) ==
    IF k > Len(helm_releases) THEN [registry |-> registry, found |-> found]
    ELSE LET release == helm_releases[k]
             deployment_id == uuid5(UniqueKey(release.namespace, release.name))
         IN  ClusterReleases(Put(registry, deployment_id, ClusterRecord(release)),
                             found \cup {deployment_id}, helm_releases, k + 1)

\* the loop over the namespaces, from namespace n on
RECURSIVE ClusterNamespaces(_, _, _, _, _)
ClusterNamespaces(registry, found, namespaces, n, helm) ==
    IF n > Len(namespaces) THEN [registry |-> registry, found |-> found]
    ELSE LET r == IF helm = "ok"
                  THEN ClusterReleases(registry, found, HelmList(namespaces[n]), 1)
                  ELSE [registry |-> registry, found |-> found]
         IN  ClusterNamespaces(r.registry, r.found, namespaces, n + 1, helm)

\* creds: `gcloud container clusters get-credentials`; ns: the namespace
\* listing; helm: `helm list`
discover_deployments_for_cluster ==
    /\ ret = NoCall
    /\ \E creds \in {"ok", "fail"}, ns \in {"ok", "fail"}, helm \in CommandAnswers :
          LET after == IF creds = "ok" /\ ns = "ok"
                       THEN ClusterNamespaces(active_deployments, {},
                                              KubectlGetNamespaces, 1, helm)
                       ELSE [registry |-> active_deployments, found |-> {}]
          IN  /\ creds # "ok" => ns = "ok" /\ helm = "ok"
              /\ ns # "ok" => helm = "ok"
              /\ active_deployments' = after.registry
              /\ background' = Detach(background, after.found)
              /\ ret' = [op |-> "discover", deployments_found |-> after.found]
    /\ UNCHANGED <<pods, releases, manager>>

\* the record initialize_deployments stores for a release
InitRecord(release, status) ==
    [keys |-> {"release_name", "namespace", "status", "model", "created_at",
               "llm_ready", "llm_status", "gpu_count", "cpu_count", "memory", "image"},
     release_name |-> release.name,
     namespace    |-> release.namespace,
     status       |-> status.status,
     model        |-> status.model,
     llm_ready    |-> status.llm_ready,
     llm_status   |-> status.llm_status]

\* the loop over the releases of one namespace, from release k on.  For a vLLM
\* release the loop evaluates uuid.uuid5(...) and datetime.now(): a name the
\* module does not bind raises NameError, and the except clause around the
\* loop ends it.
RECURSIVE InitReleases(_, _, _, _)
InitReleases(registry, helm_releases, k, st) ==
    IF k > Len(helm_releases) THEN registry
    ELSE LET release == helm_releases[k]
             deployment_id == uuid5(UniqueKey(release.namespace, release.name))
         IN  IF release \notin TrackedReleases
             THEN InitReleases(registry, helm_releases, k + 1, st)
             ELSE IF ~({"uuid", "datetime"} \subseteq deployment_init_globals)
             THEN registry
             ELSE InitReleases(Put(registry, deployment_id,
                                   InitRecord(release, st[release.name])),
                               helm_releases, k + 1, st)

\* the loop over the namespaces, from namespace n on
RECURSIVE InitNamespaces(_, _, _, _, _)
InitNamespaces(registry, namespaces, n, helm, st) ==
    IF n > Len(namespaces) THEN registry
    ELSE InitNamespaces(IF helm = "ok"
                        THEN InitReleases(registry, HelmList(namespaces[n]), 1, st)
                        ELSE registry,
                        namespaces, n + 1, helm, st)

\* ns: the namespace listing; helm: `helm list` (both with timeout=10)
initialize_deployments(registry, ns, helm, st) ==
    IF ns = "ok"
    THEN InitNamespaces(registry, KubectlGetNamespaces, 1, helm, st)
    ELSE registry

InitAnswers == {"ok", "fail", "garbage", "timeout"}

\* the process restarts: the registry and the background tasks are lost, and
\* the startup hook runs initialize_deployments
Restart ==
    /\ ret = NoCall
    /\ \E ns \in {"ok", "fail", "timeout"}, helm \in InitAnswers, st \in StatusChoices :
          /\ ns # "ok" => helm = "ok"
          /\ active_deployments' = initialize_deployments(<<>>, ns, helm, st)
          /\ ret' = [op |-> "restart", ns |-> ns, helm |-> helm]
    /\ background' = {}
    /\ UNCHANGED <<pods, releases>>
    /\ manager' = NewManager

----------------------------------------------------------------------------
(* The handlers that are called with a deployment id.  What a handler      *)
(* answers is ret: the status code (404 for HTTPException(404), 500 for an  *)
(* exception FastAPI turns into a server error), and in `ran` whether it    *)
(* started an external command.                                             *)

\* the names main.py binds that the deletion workflow uses (its imports from
\* deployment.deploy_vllm and deployment.utils.command among them)
main_globals ==
    {"deploy_vllm", "delete_deployment", "list_deployments", "run_command",
     "Namespace", "logger", "active_deployments", "uuid", "datetime"}

\* a variant of the test that answers "not found" for an empty registry only
NotFound_EmptyOnly(registry, deployment_id) == registry = <<>>

\* deployment_id not in active_deployments
NotFound(registry, deployment_id) == deployment_id \notin DOMAIN registry

\* GET /deployments/{deployment_id}
get_deployment_endpoint ==
    /\ ret = NoCall
    /\ \E deployment_id \in DeploymentIds :
          IF NotFound(active_deployments, deployment_id)
          THEN ret' = [op |-> "get", deployment_id |-> deployment_id,
                       code |-> 404, ran |-> FALSE]
          ELSE IF deployment_id \notin DOMAIN active_deployments   \* KeyError
          THEN ret' = [op |-> "get", deployment_id |-> deployment_id,
                       code |-> 500, ran |-> FALSE]
          ELSE LET deployment == active_deployments[deployment_id]
               IN  \E svc \in ServiceSamples :
                   \E io \in ServedInputs(deployment.namespace,
                                          deployment.release_name, svc) :
                      ret' = [op |-> "get", deployment_id |-> deployment_id,
                              code |-> 200, ran |-> TRUE, svc |-> svc,
                              response |->
                                 get_deployment(active_deployments, deployment_id,
                                     get_enhanced_deployment_status(
                                         deployment.namespace,
                                         deployment.release_name, io).out,
                                     svc)]
    /\ UNCHANGED <<pods, releases, active_deployments, background, manager>>

\* a variant of the update that stores the status the record held before as
\* its llm_status
RefreshRecord_Shifted(deployment, enhanced_status) ==
    [deployment EXCEPT
        !.keys       = @ \cup {"status", "llm_status", "llm_ready"},
        !.status     = enhanced_status.status,
        !.llm_status = deployment.status,
        !.llm_ready  = enhanced_status.llm_ready]

\* a variant of the update that leaves llm_ready as the record held it
RefreshRecord_KeepsReady(deployment, enhanced_status) ==
    [deployment EXCEPT
        !.keys       = @ \cup {"status", "llm_status", "llm_ready"},
        !.status     = enhanced_status.status,
        !.llm_status = enhanced_status.llm_status]

\* the record after refresh_deployment_status has stored the status in it
RefreshRecord(deployment, enhanced_status) ==
    [deployment EXCEPT
        !.keys       = @ \cup {"status", "llm_status", "llm_ready"},
        !.status     = IF "status" \in enhanced_status.keys THEN enhanced_status.status
                       ELSE IF "status" \in deployment.keys THEN deployment.status
                       ELSE "unknown",
        !.llm_status = IF "llm_status" \in enhanced_status.keys
                       THEN enhanced_status.llm_status ELSE "unknown",
        !.llm_ready  = IF "llm_ready" \in enhanced_status.keys
                       THEN enhanced_status.llm_ready ELSE FALSE]

\* what refresh_deployment_status returns, read from the updated record
RefreshResponse(deployment_id, deployment) ==
    [success       |-> TRUE,
     deployment_id |-> deployment_id,
     status        |-> deployment.status,
     health_status |-> deployment.llm_status,
     ready         |-> deployment.llm_ready]

\* POST /deployments/{deployment_id}/refresh-status.  The caller may call again
\* as soon as it holds the reply: `again` tells that this call follows a call
\* for the same id that met the same answers.
refresh_deployment_status ==
    /\ ret = NoCall \/ ret.op = "refresh"
    /\ \E deployment_id \in DeploymentIds :
          IF NotFound(active_deployments, deployment_id)
          THEN /\ ret' = [op |-> "refresh", deployment_id |-> deployment_id,
                          code |-> 404, ran |-> FALSE]
               /\ UNCHANGED active_deployments
          ELSE IF deployment_id \notin DOMAIN active_deployments   \* KeyError
          THEN /\ ret' = [op |-> "refresh", deployment_id |-> deployment_id,
                          code |-> 500, ran |-> FALSE]
               /\ UNCHANGED active_deployments
          ELSE LET deployment == active_deployments[deployment_id]
               IN  \E io \in RegistryInputs(deployment.namespace,
                                            deployment.release_name) :
                      LET enhanced_status ==
                              get_enhanced_deployment_status(
                                  deployment.namespace, deployment.release_name, io).out
                          updated == RefreshRecord(deployment, enhanced_status)
                      IN  /\ active_deployments' =
                                [active_deployments EXCEPT ![deployment_id] = updated]
                          /\ ret' = [op |-> "refresh", deployment_id |-> deployment_id,
                                     code |-> 200, ran |-> TRUE, io |-> io,
                                     again |-> /\ ret.op = "refresh"
                                               /\ ret.code = 200
                                               /\ ret.deployment_id = deployment_id
                                               /\ ret.io = io,
                                     response |-> RefreshResponse(deployment_id, updated)]
    /\ UNCHANGED <<pods, releases, background, manager>>

\* DELETE /deployments/{deployment_id}: the handler adds the task _delete, which
\* keeps the record's dict, its namespace and its release name
delete_deployment_by_id ==
    /\ ret = NoCall
    /\ \E deployment_id \in DeploymentIds :
          IF NotFound(active_deployments, deployment_id)
          THEN /\ ret' = [op |-> "delete", deployment_id |-> deployment_id,
                          code |-> 404, ran |-> FALSE]
               /\ UNCHANGED background
          ELSE IF deployment_id \notin DOMAIN active_deployments   \* KeyError
          THEN /\ ret' = [op |-> "delete", deployment_id |-> deployment_id,
                          code |-> 500, ran |-> FALSE]
               /\ UNCHANGED background
          ELSE /\ background' = background \cup
                     {[task |-> "_delete", deployment_id |-> deployment_id,
                       namespace |-> active_deployments[deployment_id].namespace,
                       release_name |-> active_deployments[deployment_id].release_name,
                       stale |-> FALSE]}
               /\ Cardinality(background') <= MaxTasks
               /\ ret' = [op |-> "delete", deployment_id |-> deployment_id,
                          code |-> 200, ran |-> FALSE]
    /\ UNCHANGED <<pods, releases, active_deployments, manager>>

\* a variant of the outcome that marks the record deleted whatever happened
DeleteOutcome_AlwaysDeleted(deployment, outcome) ==
    [deployment EXCEPT !.status = "deleted"]

\* what _delete writes into the dict it keeps: "deleted" when delete_deployment
\* returned True, "delete_failed" and an error text when it returned False or
\* the call raised
DeleteOutcome(deployment, outcome) ==
    IF outcome = "success"
    THEN [deployment EXCEPT !.status = "deleted"]
    ELSE [deployment EXCEPT !.status = "delete_failed", !.keys = @ \cup {"error"}]

\* the background task of delete_deployment_by_id, as main.py or as
\* app/services/deployment_service.py runs it (the two texts are the same).
\* delete_deployment runs `helm uninstall` and returns True, or False when the
\* command fails (as it does for a release that is not installed); where the
\* module does not bind the name, the call raises NameError.  After a success
\* the task starts the thread remove_after_delay.
_delete ==
    /\ ret = NoCall
    /\ \E t \in background, globals \in {main_globals, deployment_service_globals},
          outcome \in {"success", "fail", "raise"} :
          LET id == t.deployment_id
              installed == {r \in releases : /\ r.name = t.release_name
                                             /\ r.namespace = t.namespace}
          IN  /\ t.task = "_delete"
              /\ outcome = "raise" <=> "delete_deployment" \notin globals
              /\ outcome = "success" => installed # {}
              /\ releases' = IF outcome = "success" THEN releases \ installed
                             ELSE releases
              /\ active_deployments' =
                    IF ~t.stale /\ id \in DOMAIN active_deployments
                    THEN [active_deployments EXCEPT ![id] = DeleteOutcome(@, outcome)]
                    ELSE active_deployments
              /\ background' = (background \ {t}) \cup
                    (IF outcome = "success"
                     THEN {[task |-> "remove_after_delay", deployment_id |-> id,
                            namespace |-> t.namespace, release_name |-> t.release_name]}
                     ELSE {})
    /\ UNCHANGED <<pods, ret, manager>>

\* the thread _delete starts: after time.sleep(5) it pops the id.  It is a
\* thread of its own and takes no lock: it also runs between two steps of the
\* loop in which list_deployments_endpoint iterates over the registry.
remove_after_delay ==
    /\ ret.op \in {"none", "listing"}
    /\ \E t \in background :
          /\ t.task = "remove_after_delay"
          /\ active_deployments' = Pop(active_deployments, t.deployment_id)
          /\ background' = background \ {t}
    /\ UNCHANGED <<pods, releases, ret, manager>>

\* a handler that looks the id up and then only reads: answers[status] are the
\* codes it can answer for a record whose status call returned `status`
GuardedQuery(op, answers(_)) ==
    /\ ret = NoCall
    /\ \E deployment_id \in DeploymentIds :
          IF NotFound(active_deployments, deployment_id)
          THEN ret' = [op |-> op, deployment_id |-> deployment_id,
                       code |-> 404, ran |-> FALSE]
          ELSE IF deployment_id \notin DOMAIN active_deployments   \* KeyError
          THEN ret' = [op |-> op, deployment_id |-> deployment_id,
                       code |-> 500, ran |-> FALSE]
          ELSE \E status \in StatusOf(active_deployments[deployment_id].namespace,
                                      active_deployments[deployment_id].release_name) :
               \E answer \in answers(status) :
                  ret' = [op |-> op, deployment_id |-> deployment_id,
                          code |-> answer.code, ran |-> answer.ran]
    /\ UNCHANGED <<pods, releases, active_deployments, background, manager>>

\* GET /deployments/{deployment_id}/pods: `await run_command(cmd)` raises
\* NameError where run_command is not bound, and the handler answers 500
get_deployment_pods ==
    GuardedQuery("pods", LAMBDA status :
        IF "run_command" \in deployment_service_globals
        THEN {[code |-> 200, ran |-> TRUE], [code |-> 500, ran |-> TRUE]}
        ELSE {[code |-> 500, ran |-> FALSE]})

\* GET /deployments/{deployment_id}/logs: 500 when the pod listing fails, 404
\* "No pods found" when no pod name contains the release name
get_deployment_logs ==
    GuardedQuery("logs", LAMBDA status :
        {[code |-> 500, ran |-> TRUE],
         [code |-> IF status.pod_status = <<>> THEN 404 ELSE 200, ran |-> TRUE]})

\* POST /deployments/{deployment_id}/port-forward: 400 unless llm_ready; the
\* task _port_forward it adds touches neither the registry nor the cluster
port_forward_to_deployment ==
    GuardedQuery("port_forward", LAMBDA status :
        {[code |-> IF status.llm_ready THEN 200 ELSE 400, ran |-> TRUE]})

\* POST /deployments/{deployment_id}/chat: 400 unless llm_ready, else what the
\* LLM answers or 500
proxy_chat_to_llm ==
    GuardedQuery("chat", LAMBDA status :
        IF status.llm_ready
        THEN {[code |-> 200, ran |-> TRUE], [code |-> 500, ran |-> TRUE]}
        ELSE {[code |-> 400, ran |-> TRUE]})

\* a release is installed or uninstalled
HelmChange ==
    /\ ret = NoCall
    /\ \E r \in HelmReleaseSet :
          releases' = IF r \in releases THEN releases \ {r} ELSE releases \cup {r}
    /\ UNCHANGED <<pods, active_deployments, background, ret, manager>>

\* the pods of release demo in three conditions: none, router and model pod
\* Running and ready, router ready and model pod Pending
RegistryWorlds ==
    LET ready   == [phase |-> "Running", has_cs |-> TRUE, cs |-> <<TRUE>>]
        pending == [phase |-> "Pending", has_cs |-> FALSE, cs |-> <<>>]
        World(router, vllm) ==
            [i \in 1..Len(PodNames) |->
                IF PodNames[i] = POD_router THEN router
                ELSE IF PodNames[i] = POD_vllm THEN vllm
                ELSE Absent]
    IN  {World(Absent, Absent), World(ready, ready), World(ready, pending)}

Init ==
    /\ pods \in RegistryWorlds
    /\ releases = {}
    /\ active_deployments = <<>>
    /\ background = {}
    /\ ret = NoCall
    /\ manager = NewManager

Next ==
    \/ HelmChange
    \/ create_deployment
    \/ _deploy
    \/ list_deployments_endpoint
    \/ get_deployment_by_name
    \/ discover_deployments_for_cluster
    \/ Restart
    \/ Reply

Spec == Init /\ [][Next]_vars

----------------------------------------------------------------------------
(* The id specification: records are registered by create_deployment, and  *)
(* the handlers that take a deployment id are called with ids the registry  *)
(* holds and with ids it does not hold.                                     *)

NextById ==
    \/ create_deployment
    \/ _deploy
    \/ get_deployment_endpoint
    \/ refresh_deployment_status
    \/ delete_deployment_by_id
    \/ get_deployment_pods
    \/ get_deployment_logs
    \/ port_forward_to_deployment
    \/ proxy_chat_to_llm
    \/ Reply

\* the cluster states of the registry specification and those of the fault
\* specification, in one of which a status call goes on to the probe
InitById ==
    /\ pods \in RegistryWorlds \cup FaultWorlds
    /\ releases = {}
    /\ active_deployments = <<>>
    /\ background = {}
    /\ ret = NoCall
    /\ manager = NewManager

SpecById == InitById /\ [][NextById]_vars

----------------------------------------------------------------------------
(* The deletion specification: releases are installed, listing and cluster  *)
(* discovery register them, and the deletion workflow runs beside refresh,  *)
(* listing and cluster discovery.                                           *)

NextDelete ==
    \/ HelmChange
    \/ list_deployments_endpoint
    \/ discover_deployments_for_cluster
    \/ refresh_deployment_status
    \/ delete_deployment_by_id
    \/ _delete
    \/ remove_after_delay
    \/ Reply

SpecDelete == Init /\ [][NextDelete]_vars

----------------------------------------------------------------------------
(* The listing specification: list_deployments_endpoint step by step.  Its  *)
(* first loop, `for deployment_id, deployment in active_deployments.items()`,*)
(* has no await, so no other handler runs inside it; the threads of the      *)
(* background tasks do.  ret holds the loop's state: `used` is the size of   *)
(* the dict when the iterator was made, `todo` the ids not yet yielded,      *)
(* `shown` the ids appended to `deployments`.                                *)

\* the handler makes the iterator of active_deployments.items()
ListIterStart ==
    /\ ret = NoCall
    /\ \E namespace \in {None, NS1} :
          ret' = [op |-> "listing", namespace |-> namespace,
                  used |-> Cardinality(DOMAIN active_deployments),
                  todo |-> DOMAIN active_deployments, shown |-> {}]
    /\ UNCHANGED <<pods, releases, active_deployments, background, manager>>

\* one next() of the iterator.  A dict whose size is no longer `used` raises
\* RuntimeError, which the outer except clause answers with the empty list;
\* otherwise the next item is filtered and appended, or, the items exhausted,
\* the handler goes on to `helm list` and the loop over its releases.
ListIterNext ==
    /\ ret.op = "listing"
    /\ IF Cardinality(DOMAIN active_deployments) # ret.used
       THEN /\ ret' = [op |-> "list", namespace |-> ret.namespace,
                       deployment_ids |-> {}]
            /\ UNCHANGED active_deployments
       ELSE IF ret.todo # {}
       THEN /\ \E id \in ret.todo :
                  ret' = [ret EXCEPT
                             !.todo = @ \ {id},
                             !.shown = IF \/ ret.namespace = None
                                          \/ active_deployments[id].namespace
                                                = ret.namespace
                                       THEN @ \cup {id} ELSE @]
            /\ UNCHANGED active_deployments
       ELSE \E helm \in CommandAnswers, st \in StatusChoices :
               LET listed == {<<active_deployments[id].release_name,
                                active_deployments[id].namespace>> : id \in ret.shown}
                   after == IF helm = "ok"
                            THEN ListLoop(active_deployments, listed, ret.shown,
                                          HelmList(ret.namespace), 1, st)
                            ELSE [registry |-> active_deployments, ids |-> ret.shown]
               IN  /\ active_deployments' = after.registry
                   /\ ret' = [op |-> "list", namespace |-> ret.namespace,
                              deployment_ids |-> after.ids]
    /\ UNCHANGED <<pods, releases, background, manager>>

InitListing ==
    /\ pods \in RegistryWorlds
    /\ releases = HelmReleaseSet
    /\ active_deployments = <<>>
    /\ background = {}
    /\ ret = NoCall
    /\ manager = NewManager

NextListing ==
    \/ discover_deployments_for_cluster
    \/ delete_deployment_by_id
    \/ _delete
    \/ remove_after_delay
    \/ ListIterStart
    \/ ListIterNext
    \/ Reply

SpecListing == InitListing /\ [][NextListing]_vars

----------------------------------------------------------------------------
(* The refresh specification: refresh_deployment_status step by step.  The  *)
(* handler is a coroutine of the one event loop; its only await is the call *)
(* of get_enhanced_deployment_status, and there other calls of the handler  *)
(* run.  A call suspended at the await is held in `background` with the dict *)
(* it looked up and the answers its commands meet.                          *)

\* the handler up to its await: the test for the id, the lookup of the record
RefreshStart ==
    /\ ret = NoCall
    /\ \E deployment_id \in DeploymentIds :
          IF NotFound(active_deployments, deployment_id)
          THEN /\ ret' = [op |-> "refresh", deployment_id |-> deployment_id,
                          code |-> 404, ran |-> FALSE]
               /\ UNCHANGED background
          ELSE IF deployment_id \notin DOMAIN active_deployments   \* KeyError
          THEN /\ ret' = [op |-> "refresh", deployment_id |-> deployment_id,
                          code |-> 500, ran |-> FALSE]
               /\ UNCHANGED background
          ELSE LET deployment == active_deployments[deployment_id]
               IN  \E io \in RegistryInputs(deployment.namespace,
                                            deployment.release_name) :
                      /\ background' = background \cup
                            {[task |-> "refresh", deployment_id |-> deployment_id,
                              namespace |-> deployment.namespace,
                              release_name |-> deployment.release_name,
                              io |-> io, stale |-> FALSE]}
                      /\ Cardinality(background') <= MaxTasks
                      /\ UNCHANGED ret
    /\ UNCHANGED <<pods, releases, active_deployments, manager>>

\* the handler from its await on: the three assignments to the dict it looked
\* up and the return, with no await between them
RefreshFinish ==
    /\ ret = NoCall
    /\ \E t \in background :
          /\ t.task = "refresh"
          /\ ~t.stale /\ t.deployment_id \in DOMAIN active_deployments
          /\ LET enhanced_status ==
                     get_enhanced_deployment_status(t.namespace, t.release_name,
                                                    t.io).out
                 updated == RefreshRecord(active_deployments[t.deployment_id],
                                          enhanced_status)
             IN  /\ active_deployments' =
                       [active_deployments EXCEPT ![t.deployment_id] = updated]
                 /\ ret' = [op |-> "refresh", deployment_id |-> t.deployment_id,
                            code |-> 200, ran |-> TRUE, io |-> t.io, again |-> FALSE,
                            response |-> RefreshResponse(t.deployment_id, updated)]
          /\ background' = background \ {t}
    /\ UNCHANGED <<pods, releases, manager>>

\* the statements of the handler in their order: the test for the id, the
\* lookup, the awaited status call, the three assignments, the return
RefreshSteps ==
    <<"test", "lookup", "await", "status", "llm_status", "llm_ready", "return">>

\* a variant in which a call can be abandoned at any statement
Cancellable_Anywhere(k) == k \in 1..Len(RefreshSteps)

\* asyncio delivers a cancellation to a coroutine at an await, and nowhere else
Cancellable(k) == RefreshSteps[k] = "await"

\* the record of a call abandoned at statement k: the assignments before k
\* have been made
RecordAtStep(deployment, enhanced_status, k) ==
    LET updated == RefreshRecord(deployment, enhanced_status)
        Done(field) == \E j \in 1..(k - 1) : RefreshSteps[j] = field
    IN  [deployment EXCEPT
            !.keys       = @ \cup {f \in {"status", "llm_status", "llm_ready"} : Done(f)},
            !.status     = IF Done("status") THEN updated.status ELSE @,
            !.llm_status = IF Done("llm_status") THEN updated.llm_status ELSE @,
            !.llm_ready  = IF Done("llm_ready") THEN updated.llm_ready ELSE @]

\* a suspended call is cancelled: CancelledError leaves the handler at the
\* statement the call is at
RefreshCancel ==
    /\ ret = NoCall
    /\ \E t \in background, k \in 1..Len(RefreshSteps) :
          /\ t.task = "refresh"
          /\ ~t.stale /\ t.deployment_id \in DOMAIN active_deployments
          /\ k >= 3
          /\ Cancellable(k)
          /\ active_deployments' =
                [active_deployments EXCEPT ![t.deployment_id] =
                    RecordAtStep(@, get_enhanced_deployment_status(
                                        t.namespace, t.release_name, t.io).out, k)]
          /\ background' = background \ {t}
          /\ ret' = [op |-> "cancelled", deployment_id |-> t.deployment_id,
                     io |-> t.io]
    /\ UNCHANGED <<pods, releases, manager>>

InitRefresh ==
    /\ pods \in RegistryWorlds \cup FaultWorlds
    /\ releases = HelmReleaseSet
    /\ active_deployments = <<>>
    /\ background = {}
    /\ ret = NoCall
    /\ manager = NewManager

NextRefresh ==
    \/ list_deployments_endpoint
    \/ RefreshStart
    \/ RefreshFinish
    \/ RefreshCancel
    \/ Reply

SpecRefresh == InitRefresh /\ [][NextRefresh]_vars

----------------------------------------------------------------------------
(* The command specification: run_command, in its three copies, applied to  *)
(* processes that exit with any code and any output.                        *)

\* the modules that define run_command
CommandModules == {"deployment.utils.command", "utils.command", "gcloud.main"}

\* what a finished process leaves: its exit code and its two texts
ExitCodes == {0, 1, 2, 126, 127, 255}
Outputs == {<<>>, <<"o","k">>, <<"{","}">>, <<"E","r","r","o","r">>}
Processes == [returncode : ExitCodes, stdout : Outputs, stderr : Outputs]

\* run_command(command, check) where the process of `command` ends as
\* `process`.  deployment/utils/command.py runs it with check=False and raises
\* CalledProcessError itself; utils/command.py passes check to subprocess.run,
\* which raises; gcloud/main.py catches that exception, logs it and raises it
\* again when check is set.  None of them passes a timeout.
run_command(module, process, check) ==
    LET failed == process.returncode # 0
        raises == CASE module = "deployment.utils.command" -> check /\ failed
                    [] module = "utils.command"            -> check /\ failed
                    [] module = "gcloud.main"              -> check /\ failed
    IN  IF raises
        THEN [raised |-> TRUE, exception |-> "CalledProcessError",
              returncode |-> process.returncode,
              stdout |-> process.stdout, stderr |-> process.stderr]
        ELSE [raised |-> FALSE, exception |-> "none",
              returncode |-> process.returncode,
              stdout |-> process.stdout, stderr |-> process.stderr]

\* a caller runs a command; check is True unless the caller passes it
RunCommand ==
    /\ ret = NoCall
    /\ \E module \in CommandModules, process \in Processes, check \in BOOLEAN :
          ret' = [op |-> "run_command", module |-> module, check |-> check,
                  process |-> process,
                  result |-> run_command(module, process, check)]
    /\ UNCHANGED <<pods, releases, active_deployments, background, manager>>

NextCommand == RunCommand \/ Reply

SpecCommand == Init /\ [][NextCommand]_vars

----------------------------------------------------------------------------
(* The re-creation specification: the releases are installed, and           *)
(* deployments are created, deleted by id and created again while the tasks *)
(* and threads of earlier calls are pending.                                *)

NextRecreate ==
    \/ create_deployment
    \/ _deploy
    \/ delete_deployment_by_id
    \/ _delete
    \/ remove_after_delay
    \/ Reply

SpecRecreate == InitListing /\ [][NextRecreate]_vars

----------------------------------------------------------------------------
(* The key specification: the vLLM release is installed, and every handler  *)
(* that writes the registry or reads it by id or by name runs beside the    *)
(* deletion workflow.                                                       *)

InitKeys ==
    /\ pods \in RegistryWorlds
    /\ releases = {HelmReleases[1]}
    /\ active_deployments = <<>>
    /\ background = {}
    /\ ret = NoCall
    /\ manager = NewManager

NextKeys ==
    \/ list_deployments_endpoint
    \/ get_deployment_by_name
    \/ discover_deployments_for_cluster
    \/ get_deployment_endpoint
    \/ refresh_deployment_status
    \/ delete_deployment_by_id
    \/ _delete
    \/ remove_after_delay
    \/ Reply

SpecKeys == InitKeys /\ [][NextKeys]_vars

----------------------------------------------------------------------------
(* Properties of get_enhanced_deployment_status.  They are stated over the *)
(* last call: its inputs ret.io, the dict it returned ret.out, and its     *)
(* trace ret.trace; the cluster is still as the call saw it.               *)

\* a call has returned
Called == ret.op = "status"

\* the llmReadiness value an llm_status text stands for
Readiness(llm_status) ==
    CASE llm_status = "Ready" -> "Ready"
      [] llm_status = "Failed" -> "Failed"
      [] llm_status = "Initializing" -> "Initializing"
      [] llm_status \in {"Starting", "Model Loaded, Service Starting"} -> "Starting"
      [] llm_status \in {"Loading Model", "Downloading/Loading Model"} -> "LoadingModel"
      [] llm_status = "API Error" -> "ApiError"
      [] OTHER -> "ErrorText"

\* 'error'
T_error == <<"e","r","r","o","r">>

\* the pods of the namespace whose name contains release_name
NamedLike(release_name) ==
    SelectSeq(KubectlGetPods(NS1), LAMBDA p : Contains(p.name, release_name))

\* every pod has phase Running and every container ready flag is true
AllGreen(pod_list) ==
    \A k \in 1..Len(pod_list) :
        /\ pod_list[k].phase = "Running"
        /\ \A c \in 1..Len(pod_list[k].cs) : pod_list[k].cs[c]

\* the call returned Ready / active and ran neither the probe nor the log fetch
FastReady ==
    /\ ret.out.llm_status = "Ready"
    /\ ret.out.ui_status = "active"
    /\ ret.trace.probe_calls = 0
    /\ ret.trace.log_calls = 0

\* every inventory command of the call answered normally
AllOk(io) == io.c1r = "ok" /\ \A f \in InventoryCommands : io[f] = "ok"

\* the state of the pod of that name
PodOf(name) == pods[CHOOSE i \in 1..Len(PodNames) : PodNames[i] = name]

\* C1: on every path of get_enhanced_deployment_status the returned ui_status
\* is "active" exactly when llm_status is "Ready", "failed" exactly when
\* llm_status is "Failed", and "pending" in every other case.
C1_UiMatchesLlm ==
    Called =>
        /\ ret.out.ui_status \in {"active", "failed", "pending"}
        /\ ret.out.ui_status = "active" <=> ret.out.llm_status = "Ready"
        /\ ret.out.ui_status = "failed" <=> ret.out.llm_status = "Failed"

\* a call left by the early exit with a failed verdict
C1_Witness ==
    /\ Called
    /\ ret.trace.path = "early"
    /\ ret.out.llm_status = "Failed"
    /\ ret.out.ui_status = "failed"

\* C4, as stated: if every pod whose name contains the release name is Running
\* with every container ready flag true, the call returns Ready / active and
\* runs neither the probe nor the log fetch.
C4_AllGreenIsReady ==
    Called /\ AllGreen(NamedLike(ret.release_name)) => FastReady

\* C4, with its precondition made exact: if the gate's pod listing succeeds and
\* there is at least one pod whose name contains the release name, and each of
\* them is Running and reports container statuses that are all ready, the call
\* returns Ready / active and runs neither the probe nor the log fetch.
C4_ListedNonEmptyAllGreenIsReady ==
    LET named == NamedLike(ret.release_name)
    IN  /\ Called
        /\ ret.io.c3 = "ok"
        /\ named # <<>>
        /\ AllGreen(named)
        /\ \A k \in 1..Len(named) : named[k].has_cs
        => FastReady

\* a router pod and a model pod, both Running and ready, and a call that took
\* the fast path
C4_Witness ==
    /\ Called
    /\ ret.release_name = REL_demo
    /\ ret.io.c3 = "ok"
    /\ PodOf(POD_router) = [phase |-> "Running", has_cs |-> TRUE, cs |-> <<TRUE>>]
    /\ PodOf(POD_vllm) = [phase |-> "Running", has_cs |-> TRUE, cs |-> <<TRUE>>]
    /\ Len(NamedLike(REL_demo)) = 2
    /\ ret.trace.path = "fast"
    /\ FastReady

\* the positions of the Router pods and of the Model pods in the rollup's
\* pod_status, by the name tests of the classification
RouterEntries(pod_status) ==
    {k \in 1..Len(pod_status) : Contains(Lower(pod_status[k].name), S_router)}

ModelEntries(pod_status) ==
    {k \in 1..Len(pod_status) :
        /\ ~Contains(Lower(pod_status[k].name), S_router)
        /\ \/ Contains(Lower(pod_status[k].name), S_vllm)
           \/ Contains(Lower(pod_status[k].name), S_deployment)}

\* there are such pods and each has phase Running
AllEntriesRunning(pod_status, entries) ==
    entries # {} /\ \A k \in entries : pod_status[k].status[1] = "Running"

\* C5: the rollup of a filtered pod set is "No Pods Found" when the set is
\* empty, "Running" when its Model pods and its Router pods are all Running,
\* "Model Ready (Router Pending)" when its Model pods are all Running and its
\* Router pods are not, or are absent, "Router Ready (Model Pending)" in the
\* symmetric case, and "Pending" otherwise.
C5_Rollup ==
    Called /\ "pod_status" \in ret.out.keys =>
        LET pod_status == ret.out.pod_status
            models  == AllEntriesRunning(pod_status, ModelEntries(pod_status))
            routers == AllEntriesRunning(pod_status, RouterEntries(pod_status))
        IN  ret.out.status =
                IF pod_status = <<>> THEN "No Pods Found"
                ELSE IF models /\ routers THEN "Running"
                ELSE IF models THEN "Model Ready (Router Pending)"
                ELSE IF routers THEN "Router Ready (Model Pending)"
                ELSE "Pending"

\* a rollup over a Running router pod and a model pod that is not Running
C5_Witness ==
    /\ Called
    /\ "pod_status" \in ret.out.keys
    /\ Len(ret.out.pod_status) = 2
    /\ PodOf(POD_router).phase = "Running"
    /\ PodOf(POD_vllm).phase = "Pending"
    /\ ret.out.status = "Router Ready (Model Pending)"

\* C6: within one call the rollup and the readiness gate are computed over the
\* same pods, namely the pods of the namespace whose name contains the
\* release name.
C6_SameFilteredSet ==
    Called /\ "pod_status" \in ret.out.keys /\ ret.trace.gate_listed =>
        LET rollup == {ret.out.pod_status[k].name : k \in 1..Len(ret.out.pod_status)}
            gate   == {ret.trace.deployment_pods[k] :
                          k \in 1..Len(ret.trace.deployment_pods)}
            named  == {NamedLike(ret.release_name)[k].name :
                          k \in 1..Len(NamedLike(ret.release_name))}
        IN  rollup = gate /\ gate = named

\* C7: when the fast path did not fire and the rollup is not "Running", the
\* call runs neither the probe nor the log fetch and returns Failed / failed if
\* the rollup text contains 'error' or 'failed', Starting / pending otherwise;
\* with every command answering normally, an empty pod inventory gives
\* "No Pods Found", Starting, pending, and a Running model pod with a Pending
\* router pod gives "Model Ready (Router Pending)", Starting, pending.
C7_EarlyExit ==
    Called /\ ret.trace.path # "fast" /\ ret.out.status # "Running" =>
        LET text == Lower(StatusChars(ret.out.status))
            starting == /\ ret.out.llm_status = "Starting"
                        /\ ret.out.ui_status = "pending"
        IN  /\ ret.trace.probe_calls = 0
            /\ ret.trace.log_calls = 0
            /\ IF Contains(text, T_error) \/ Contains(text, T_failed)
               THEN ret.out.llm_status = "Failed" /\ ret.out.ui_status = "failed"
               ELSE starting
            /\ AllOk(ret.io) /\ KubectlGetPods(NS1) = <<>> =>
                  ret.out.status = "No Pods Found" /\ starting
            /\ /\ AllOk(ret.io)
               /\ ret.release_name = REL_demo
               /\ PodOf(POD_vllm).phase = "Running"
               /\ PodOf(POD_router).phase = "Pending"
               => ret.out.status = "Model Ready (Router Pending)" /\ starting

\* a call against an empty namespace
C7_Witness ==
    /\ Called
    /\ AllOk(ret.io)
    /\ KubectlGetPods(NS1) = <<>>
    /\ ret.trace.path = "early"
    /\ ret.out.status = "No Pods Found"
    /\ ret.out.llm_status = "Starting"

C9_ProbeFailureFallsToLogs ==
    Called /\ ret.io.probe \in {"fail", "timeout"} =>
        /\ ret.trace.log_calls = 1
        /\ Readiness(ret.out.llm_status) # "ErrorText"

\* C10: a log fetch that succeeds is classified in priority order: logs with
\* 'model loaded successfully' give Starting, also when they contain
\* 'loading model' or 'downloading'; otherwise logs with 'loading model' or
\* 'downloading' give LoadingModel; anything else gives Starting; ui_status
\* is pending in all three cases.
C10_LogPriority ==
    Called /\ ret.trace.path = "logs" /\ ret.io.logs = "ok" =>
        LET log_content == Lower(ret.io.log)
        IN  /\ ret.out.ui_status = "pending"
            /\ Readiness(ret.out.llm_status) =
                  IF Contains(log_content, T_loaded) THEN "Starting"
                  ELSE IF \/ Contains(log_content, T_loading)
                          \/ Contains(log_content, T_downloading)
                  THEN "LoadingModel"
                  ELSE "Starting"

\* logs that hold 'Loading model' and then 'Model loaded successfully'
C10_Witness ==
    /\ Called
    /\ ret.trace.path = "logs"
    /\ ret.io.logs = "ok"
    /\ ret.io.log = LOG_loading \o LOG_loaded
    /\ ret.out.llm_status = "Model Loaded, Service Starting"

\* the router Service exists as a LoadBalancer whose first ingress entry holds
\* a hostname or an ip
HasExternalAddress(svc) ==
    /\ svc.exists
    /\ svc.type = "LoadBalancer"
    /\ svc.ingress # <<>>
    /\ svc.ingress[1].has_hostname \/ svc.ingress[1].has_ip

\* the hostname of the first ingress entry when it has one, else its ip
PreferredAddress(svc) ==
    IF svc.ingress[1].has_hostname THEN svc.ingress[1].hostname ELSE svc.ingress[1].ip

\* C12: whenever the router Service is a LoadBalancer with an external address
\* and the service queries of the call answer, the returned status carries
\* both the external address and the public url 'http://' + address, also
\* when the pod listing failed or the rollup is not "Running".
C12_AddressAlwaysResolved ==
    /\ Called
    /\ HasExternalAddress(ret.io.svc)
    /\ ret.io.svcA = "ok"
    /\ ret.io.svcB = "ok"
    => /\ "external_ip" \in ret.out.keys
       /\ ret.out.external_ip = PreferredAddress(ret.io.svc)
       /\ "public_url" \in ret.out.keys
       /\ ret.out.public_url = S_http \o PreferredAddress(ret.io.svc)

\* C13: if the pod listing of the rollup exits non-zero or prints what
\* json.loads rejects, the call still returns a status dict, its rollup is
\* "No Pods Found", and no exception leaves the call.
C13_FailedListingIsNoPodsFound ==
    Called /\ (ret.io.c1 = "garbage" \/ ret.io.c2 # "ok") =>
        /\ ~ret.trace.raised
        /\ ret.out.status = "No Pods Found"

\* the inventory commands of the call that did not answer normally
Faults(io) == {f \in InventoryCommands : io[f] # "ok"}

\* C14: whichever of the commands of a call fail together (non-zero exit,
\* empty output, output that is no JSON, from the pod listings, the service
\* queries, helm values, the probe or the log fetch), no exception leaves
\* get_enhanced_deployment_status and the dict it returns holds at least name,
\* namespace, status, llm_status and ui_status.
C14_NeverRaises ==
    Called =>
        /\ ~ret.trace.raised
        /\ {"name", "namespace", "status", "llm_status", "ui_status"} \subseteq ret.out.keys

\* a call in which helm values, both service queries, the gate's listing, the
\* probe with its pod lookup and the log fetch with its pod lookup all fail
C14_Witness ==
    /\ Called
    /\ Faults(ret.io) = {"helm", "svcA", "c3", "svcB", "c5", "c7"}
    /\ ret.io.probe = "fail"
    /\ ret.io.logs = "fail"
    /\ ret.trace.path = "logs"
    /\ ret.out.status = "Running"
    /\ ret.out.llm_status = "Initializing"

\* C15: a call in which one command never answers still returns: no call is
\* left waiting for a command.
C15_EveryCallReturns == ret.op # "waiting"

----------------------------------------------------------------------------
(* Properties of the registry.                                             *)

\* C2: in every reachable state every key of active_deployments is the
\* name-based id of its record's "namespace:release_name", whichever handler
\* registered the record (so that registering the same namespace and release
\* name twice gives the same id).
C2_KeysAreNameBased ==
    \A deployment_id \in DOMAIN active_deployments :
        deployment_id = uuid5(UniqueKey(active_deployments[deployment_id].namespace,
                                        active_deployments[deployment_id].release_name))

\* C3: when the process restarts and initialize_deployments has run, its
\* listings answered, every record create_deployment had registered, whose
\* release is installed and taken for a vLLM release, is in the registry again
\* under the same id.
C3_RestartKeepsId ==
    [][ ret'.op = "restart" /\ ret'.ns = "ok" /\ ret'.helm = "ok" =>
          \A deployment_id \in DOMAIN active_deployments :
              LET deployment == active_deployments[deployment_id]
              IN  /\ "id" \in deployment.keys
                  /\ \E r \in releases \cap TrackedReleases :
                        /\ r.name = deployment.release_name
                        /\ r.namespace = deployment.namespace
                  => /\ deployment_id \in DOMAIN active_deployments'
                     /\ active_deployments'[deployment_id].release_name
                           = deployment.release_name
                     /\ active_deployments'[deployment_id].namespace
                           = deployment.namespace ]_vars

----------------------------------------------------------------------------
(* Properties of the handlers that take a deployment id.                   *)

\* C11: when the router Service is a LoadBalancer with an ingress entry, the
\* response of get_deployment carries as external address the entry's hostname
\* when it has one and its ip only otherwise, and as public url 'http://'
\* followed by that same address.
C11_HostnamePreferred ==
    ret.op = "get" /\ ret.code = 200 /\ HasExternalAddress(ret.svc) =>
        /\ ret.response.external_ip = PreferredAddress(ret.svc)
        /\ ret.response.public_url = S_http \o ret.response.external_ip

\* C16: a refresh that follows a refresh of the same id, the cluster unchanged
\* and every command answering as before, returns what the first returned and
\* leaves the registry as the first left it.
C16_RefreshTwice ==
    [][ ret'.op = "refresh" /\ ret'.code = 200 /\ ret'.again =>
            /\ ret'.response = ret.response
            /\ active_deployments' = active_deployments ]_vars

\* a second refresh in a cluster where the probe timed out both times
C16_Witness ==
    /\ ret.op = "refresh"
    /\ ret.code = 200
    /\ ret.again
    /\ ret.io.probe = "timeout"
    /\ ret.response.status = "Running"
    /\ ret.response.health_status = "Status Check Error: timed out"

\* the keys under which a record could hold the time of its last refresh
RefreshStampKeys == {"updated_at", "last_refreshed_at", "lastRefreshedAt"}

\* C17: when refresh of a registered id has returned, the record under that id
\* holds the status, llm_status and llm_ready of the status call together with
\* the time of the refresh, and the status, health_status and ready returned
\* are the ones the record holds.
C17_RefreshIsStored ==
    ret.op = "refresh" /\ ret.code = 200 =>
        LET deployment == active_deployments[ret.deployment_id]
            enhanced_status ==
                get_enhanced_deployment_status(deployment.namespace,
                                               deployment.release_name, ret.io).out
        IN  /\ deployment.status = enhanced_status.status
            /\ deployment.llm_status = enhanced_status.llm_status
            /\ deployment.llm_ready = enhanced_status.llm_ready
            /\ ret.response.status = deployment.status
            /\ ret.response.health_status = deployment.llm_status
            /\ ret.response.ready = deployment.llm_ready
            /\ deployment.keys \cap RefreshStampKeys # {}

\* get, refresh, delete-by-id, pods, logs, port-forward and chat
GuardedOps == {"get", "refresh", "delete", "pods", "logs", "port_forward", "chat"}

\* C18: each of get, refresh, delete-by-id, pods, logs, port-forward and chat,
\* called with an id the registry does not hold, answers 404, starts no
\* external command and changes neither the registry nor the background tasks
\* nor the cluster.
C18_AbsentIdIsNotFound ==
    [][ ret'.op \in GuardedOps /\ ret'.deployment_id \notin DOMAIN active_deployments =>
            /\ ret'.code = 404
            /\ ~ret'.ran
            /\ UNCHANGED <<active_deployments, background, releases, pods>> ]_vars

\* chat called with an id the registry does not hold, while it holds another
C18_Witness ==
    /\ ret.op = "chat"
    /\ ret.code = 404
    /\ ~ret.ran
    /\ DOMAIN active_deployments # {}
    /\ ret.deployment_id \notin DOMAIN active_deployments

----------------------------------------------------------------------------
(* Properties of the deletion workflow.                                    *)

C20_DeletedStaysDeleted ==
    [][ \A id \in DOMAIN active_deployments \cap DOMAIN active_deployments' :
            /\ active_deployments[id].status = "deleted"
            /\ ret'.op \in {"refresh", "list", "discover"}
            => active_deployments'[id].status = "deleted" ]_vars

----------------------------------------------------------------------------
(* Properties of the registry's key set.                                   *)

\* the handlers that read or write the registry without being part of the
\* deletion workflow
KeepingOps == {"refresh", "get", "by_name", "list", "discover"}

\* C21: a step of refresh, get, get-by-name, listing or cluster discovery
\* removes no key from the registry, and a step that removes keys is a step of
\* the removal thread and removes the one id that thread was started for.
C21_KeysShrinkOnlyByRemoval ==
    [][ /\ ret'.op \in KeepingOps =>
              DOMAIN active_deployments \subseteq DOMAIN active_deployments'
        /\ DOMAIN active_deployments \ DOMAIN active_deployments' # {} =>
              \E t \in background \ background' :
                  /\ t.task = "remove_after_delay"
                  /\ DOMAIN active_deployments \ DOMAIN active_deployments'
                        = {t.deployment_id} ]_vars

\* get-by-name has registered a release under a new id beside the records the
\* registry held, one of them awaiting its removal
C21_Witness ==
    /\ ret.op = "by_name"
    /\ ret.registered
    /\ Cardinality(DOMAIN active_deployments) >= 2
    /\ \E t \in background :
          t.task = "remove_after_delay" /\ t.deployment_id \in DOMAIN active_deployments

\* C22: a listing that has returned, whatever ran beside it, holds every
\* record the registry holds in the namespace asked for.
C22_ListingReturnsEveryRecord ==
    ret.op = "list" =>
        \A id \in DOMAIN active_deployments :
            ret.namespace = None \/ active_deployments[id].namespace = ret.namespace
                => id \in ret.deployment_ids

----------------------------------------------------------------------------
(* Properties of refreshes that run beside each other.                     *)

\* status, llm_status and llm_ready of a dict
Verdict(d) == <<d.status, d.llm_status, d.llm_ready>>

\* C23: with calls of refresh suspended and resumed in any order, status,
\* llm_status and llm_ready of every record are those of one status call, and
\* when a refresh has returned they are the ones that call computed.
C23_LastWriteWins ==
    /\ \A id \in DOMAIN active_deployments :
          LET d == active_deployments[id]
          IN  \E io \in RegistryInputs(d.namespace, d.release_name) :
                 Verdict(d) = Verdict(get_enhanced_deployment_status(
                                         d.namespace, d.release_name, io).out)
    /\ ret.op = "refresh" /\ ret.code = 200 =>
          LET d == active_deployments[ret.deployment_id]
          IN  Verdict(d) = Verdict(get_enhanced_deployment_status(
                                      d.namespace, d.release_name, ret.io).out)

\* a refresh has returned while another refresh of the same id, which met
\* other answers, is still suspended
C23_Witness ==
    /\ ret.op = "refresh"
    /\ ret.code = 200
    /\ \E t \in background :
          /\ t.task = "refresh"
          /\ t.deployment_id = ret.deployment_id
          /\ Verdict(get_enhanced_deployment_status(t.namespace, t.release_name,
                                                    t.io).out)
                # Verdict(active_deployments[ret.deployment_id])

\* C24: the step in which a refresh is cancelled leaves the registry as it
\* was: no field of the status the call was computing is written.
C24_CancelWritesNothing ==
    [][ ret'.op = "cancelled" => active_deployments' = active_deployments ]_vars

\* a refresh was cancelled whose status call would have changed the record
C24_Witness ==
    /\ ret.op = "cancelled"
    /\ LET d == active_deployments[ret.deployment_id]
       IN  Verdict(d) # Verdict(get_enhanced_deployment_status(
                                   d.namespace, d.release_name, ret.io).out)

----------------------------------------------------------------------------
(* Properties of run_command.                                              *)

\* C25: run_command raises for no exit code and no value of check; what it
\* returns carries the exit code, stdout and stderr of the process.
C25_NeverRaises ==
    ret.op = "run_command" =>
        /\ ~ret.result.raised
        /\ ret.result.returncode = ret.process.returncode
        /\ ret.result.stdout = ret.process.stdout
        /\ ret.result.stderr = ret.process.stderr

----------------------------------------------------------------------------
(* Properties of the registry's records.                                   *)

\* C26: the registry holds at most one record of a namespace and release name.
C26_OneRecordPerRelease ==
    \A id1, id2 \in DOMAIN active_deployments :
        /\ active_deployments[id1].namespace = active_deployments[id2].namespace
        /\ active_deployments[id1].release_name = active_deployments[id2].release_name
        => id1 = id2

\* C27: no step removes a record that create_deployment has registered and
\* whose deploy task has not yet stored its outcome (status "creating"): the
\* removal thread of an earlier deletion spares the re-created record.
C27_RemovalSparesNewRecord ==
    [][ \A id \in DOMAIN active_deployments \ DOMAIN active_deployments' :
            active_deployments[id].status # "creating" ]_vars

----------------------------------------------------------------------------
(* Properties of the status a refresh stores and returns.                  *)

\* C28: a status call that returns llm_status "Ready" with llm_ready true
\* returns the rollup "Running" in the same dict (refresh stores and returns
\* the three fields of that dict as they are).
C28_ReadyIsRunning ==
    Called /\ ret.out.llm_status = "Ready" /\ ret.out.llm_ready
        => ret.out.status = "Running"

----------------------------------------------------------------------------
(* The ConnectionManager of the log websockets.  manager.active_connections *)
(* maps a deployment id to the list of its websockets, manager.log_tasks    *)
(* maps it to its stream_logs task ("running", or "done" once the task has  *)
(* ended), and manager.accepted holds the (websocket, deployment id) pairs   *)
(* that have been connected.                                                 *)

\* the websockets the clients open
Sockets == 1..MaxSockets

\* the names bound in app/services/connection_manager.py (its imports)
connection_manager_globals ==
    {"Dict", "List", "WebSocket", "asyncio", "json", "active_deployments"}

\* the two modules that define the class: `logger` is bound in main.py only
ManagerModules == {connection_manager_globals, main_globals}

\* the websockets of a list
Connected(list) == {list[k] : k \in 1..Len(list)}

\* list.remove(websocket), for a websocket the list holds
Remove(list, websocket) ==
    LET k == CHOOSE i \in 1..Len(list) :
                 /\ list[i] = websocket
                 /\ \A j \in 1..(i - 1) : list[j] # websocket
    IN  SubSeq(list, 1, k - 1) \o SubSeq(list, k + 1, Len(list))

\* del d[deployment_id]
Del(d, deployment_id) == [id \in DOMAIN d \ {deployment_id} |-> d[id]]

\* connect, after websocket.accept() has returned
connect(m, websocket, deployment_id, registry) ==
    LET list == IF deployment_id \notin DOMAIN m.active_connections
                THEN <<>>
                ELSE m.active_connections[deployment_id]
        appended == [m EXCEPT !.active_connections =
                        (deployment_id :> Append(list, websocket)) @@ @]
    IN  IF /\ \/ deployment_id \notin DOMAIN m.log_tasks
              \/ m.log_tasks[deployment_id] = "done"
           /\ deployment_id \in DOMAIN registry      \* .get(...) is a non-empty dict
        THEN [appended EXCEPT !.log_tasks = (deployment_id :> "running") @@ @]
        ELSE appended

\* disconnect: the manager it leaves, and whether it raised (list.remove raises
\* ValueError for a websocket the list does not hold, before anything is changed)
disconnect(m, websocket, deployment_id) ==
    IF deployment_id \notin DOMAIN m.active_connections
    THEN [manager |-> m, raised |-> FALSE]
    ELSE IF websocket \notin Connected(m.active_connections[deployment_id])
    THEN [manager |-> m, raised |-> TRUE]
    ELSE LET rest == Remove(m.active_connections[deployment_id], websocket)
         IN  IF rest = <<>> /\ deployment_id \in DOMAIN m.log_tasks
             THEN [manager |-> [m EXCEPT
                        !.log_tasks = Del(@, deployment_id),
                        !.active_connections = Del(@, deployment_id)],
                   raised |-> FALSE]
             ELSE [manager |-> [m EXCEPT !.active_connections[deployment_id] = rest],
                   raised |-> FALSE]

\* the second loop of send_message: disconnect every websocket of the list
RECURSIVE DisconnectAll(_, _, _)
DisconnectAll(m, disconnected_websockets, deployment_id) ==
    IF disconnected_websockets = <<>>
    THEN [manager |-> m, raised |-> FALSE]
    ELSE LET r == disconnect(m, Head(disconnected_websockets), deployment_id)
         IN  IF r.raised
             THEN r
             ELSE DisconnectAll(r.manager, Tail(disconnected_websockets),
                                deployment_id)

\* send_message, with send_text raising for the websockets of `failed`: the
\* except clause calls logger.error, a NameError where `logger` is not bound
send_message(m, deployment_id, failed, globals) ==
    IF deployment_id \notin DOMAIN m.active_connections
    THEN [manager |-> m, raised |-> FALSE]
    ELSE LET list == m.active_connections[deployment_id]
             disconnected_websockets ==
                 SelectSeq(list, LAMBDA websocket : websocket \in failed)
         IN  IF disconnected_websockets # <<>> /\ "logger" \notin globals
             THEN [manager |-> m, raised |-> TRUE]
             ELSE DisconnectAll(m, disconnected_websockets, deployment_id)

\* a websocket that was not connected before connects; accepts: whether
\* websocket.accept() returns
Connect ==
    /\ ret = NoCall
    /\ \E websocket \in Sockets \ {p[1] : p \in manager.accepted},
          deployment_id \in DeploymentIds, accepts \in BOOLEAN :
          IF accepts
          THEN /\ manager' = [connect(manager, websocket, deployment_id,
                                      active_deployments)
                                 EXCEPT !.accepted = @ \cup {<<websocket, deployment_id>>}]
               /\ ret' = [op |-> "connect", websocket |-> websocket,
                          deployment_id |-> deployment_id, raised |-> FALSE]
          ELSE /\ manager' = manager
               /\ ret' = [op |-> "connect", websocket |-> websocket,
                          deployment_id |-> deployment_id, raised |-> TRUE]
    /\ UNCHANGED <<pods, releases, active_deployments, background>>

\* disconnect is called for a websocket that was connected to the deployment
Disconnect ==
    /\ ret = NoCall
    /\ \E p \in manager.accepted :
          LET r == disconnect(manager, p[1], p[2])
          IN  /\ manager' = r.manager
              /\ ret' = [op |-> "disconnect", websocket |-> p[1],
                         deployment_id |-> p[2], raised |-> r.raised,
                         before |-> manager]
    /\ UNCHANGED <<pods, releases, active_deployments, background>>

\* a message is sent to the websockets of a deployment, and some sends fail
SendMessage ==
    /\ ret = NoCall
    /\ \E deployment_id \in DeploymentIds, failed \in SUBSET Sockets,
          globals \in ManagerModules :
          LET r == send_message(manager, deployment_id, failed, globals)
          IN  /\ manager' = r.manager
              /\ ret' = [op |-> "send_message", deployment_id |-> deployment_id,
                         failed |-> failed, raised |-> r.raised]
    /\ UNCHANGED <<pods, releases, active_deployments, background>>

\* the stream_logs task of a deployment ends (it returns or it raises)
stream_logs ==
    /\ ret = NoCall
    /\ \E deployment_id \in DOMAIN manager.log_tasks :
          /\ manager.log_tasks[deployment_id] = "running"
          /\ manager' = [manager EXCEPT !.log_tasks[deployment_id] = "done"]
    /\ UNCHANGED <<pods, releases, active_deployments, background, ret>>

NextManager ==
    \/ list_deployments_endpoint
    \/ Connect
    \/ Disconnect
    \/ SendMessage
    \/ stream_logs
    \/ Reply

SpecManager == InitKeys /\ [][NextManager]_vars

\* C29: a deployment has a log task only while a websocket is connected to it;
\* a disconnect for a websocket that was connected before raises no error,
\* also when the websocket has been removed already; and the disconnect of the
\* last websocket of a deployment with a task removes the task entry and the
\* connection list.  (log_tasks is a dict: one task per deployment.)
C29_TasksFollowConnections ==
    /\ \A id \in DOMAIN manager.log_tasks :
          /\ id \in DOMAIN manager.active_connections
          /\ manager.active_connections[id] # <<>>
    /\ ret.op = "disconnect" =>
          /\ ~ret.raised
          /\ ( /\ ret.deployment_id \in DOMAIN ret.before.log_tasks
               /\ ret.before.active_connections[ret.deployment_id]
                     = <<ret.websocket>> )
             => /\ ret.deployment_id \notin DOMAIN manager.log_tasks
                /\ ret.deployment_id \notin DOMAIN manager.active_connections

----------------------------------------------------------------------------
(* Properties of the create workflow: create_deployment and its task.      *)

\* C30: when create_deployment returns success the registry holds the record of
\* the returned id with status "creating", and when the task _deploy of a
\* deployment has run the registry holds its record with status "deployed" or
\* "failed" (so the task never leaves or sets "creating").
C30_CreateEndsDeployedOrFailed ==
    [][ /\ (ret'.op = "create" /\ ret.op # "create" /\ ret'.success)
           => /\ ret'.deployment_id \in DOMAIN active_deployments'
              /\ active_deployments'[ret'.deployment_id].status = "creating"
        /\ \A t \in background \ background' :
              t.task = "_deploy"
              => /\ t.deployment_id \in DOMAIN active_deployments'
                 /\ active_deployments'[t.deployment_id].status
                       \in {"deployed", "failed"} ]_vars

====
